---------------------------- MODULE Spec2Model ----------------------------
(***************************************************************************)
(* A model of jarida's credential-derived key management and per-record    *)
(* authenticated encryption (src/security.rs), of the credential           *)
(* verification protocol that drives it (src/common.rs, src/lib.rs and the *)
(* older src/main.rs) and of the part of the store the protocol reads and  *)
(* writes (src/db.rs).                                                     *)
(*                                                                         *)
(* ring's AES-256-GCM and PBKDF2 are modelled as ideal primitives: a       *)
(* keystream byte and a tag byte are symbolic values that name the key,    *)
(* the 96-bit AEAD nonce and the data they were computed from, so that an  *)
(* open succeeds exactly when the tag was computed by a seal under the     *)
(* same key, AEAD nonce, associated data and ciphertext.  Everything       *)
(* around the primitives (the 128-bit nonce counter, its truncation to 12  *)
(* bytes, the byte layout of a sealed buffer, split_off, the guards, the   *)
(* retry loops) is modelled as the code computes it.                       *)
(***************************************************************************)
EXTENDS Integers, Sequences, FiniteSets, TLC

VARIABLES
    \* ---- the build ----
    overflow_checks,  \* TRUE: `self.0 += 1` panics on overflow (debug profile);
                      \* FALSE: it wraps (release profile)
    \* ---- the store on disk (src/db.rs) ----
    salt_file,        \* security/salt : DbSalt bytes
    key_file,         \* security/key  : the wrapped data key, <<>> when empty
    records,          \* entries/<uuid>/content : uuid -> sealed bytes
    metas,            \* entries/<uuid>/meta    : uuid -> sealed bytes
    index_file,       \* index : the text of the file, a Uuid per line
    entry_dirs,       \* entries/<uuid>/ : the Uuids whose directory exists
    config_dir,       \* .jarida/ : <<>> when there is none, else <<f>> with f the
                      \* config.toml in it, <<>> (none) or <<text>>
    exists,           \* which of the salt, key and index files exist
    \* ---- one run of the verification protocol ----
    variant,          \* "common": get_and_validate_credentials; "main": main.rs
    pc,               \* position of the run
    cfg_user,         \* Config.user     : <<>> (None) or <<name>>
    cfg_password,     \* Config.password : <<>> (None) or <<password>>
    salt,             \* local `salt`
    username,         \* local `username`
    password,         \* local `password`: <<>> (None) or <<password>>
    password2,        \* main.rs's local `password2`
    encrypted_key,    \* local `encrypted_key`
    cred_guard,       \* local `cred_guard`: <<>> or <<CredentialGuard>>
    data_guard,       \* local `data_guard`: <<>> (None) or <<DataGuard>>
    loop_i,           \* loop counter of the retry / validation loop
    outcome,          \* how the run ended: "", "Ok", an error message, "panic"
    \* ---- history of the run and of the store (observers, not program state) ----
    hist,
    \* ---- a buffer and a result for direct calls of the API ----
    buf,              \* a Vec<u8> handed to / returned by the API
    ret,              \* the value the last API call returned
    op                \* the last API call and its arguments

vars == <<overflow_checks, salt_file, key_file, records, metas, index_file,
          entry_dirs, config_dir, exists, variant, pc, cfg_user, cfg_password, salt, username, password, password2, encrypted_key,
          cred_guard, data_guard, loop_i, outcome, hist, buf, ret, op>>

storeVars == <<salt_file, key_file, records, metas, index_file, entry_dirs, config_dir,
               exists>>
\* the locals of a run but its guards
localVars == <<variant, pc, cfg_user, cfg_password, salt, username, password,
               password2, encrypted_key, loop_i, outcome>>
runVars == <<localVars, cred_guard, hist>>
runVars_but_hist == <<localVars, cred_guard>>
apiVars == <<buf, ret, op>>

-----------------------------------------------------------------------------
(* Program constants *)

\* const KEY_LEN: usize = digest::SHA256_OUTPUT_LEN
KEY_LEN == 32
\* Nonce::len() = size_of::<u128>()
NONCE_LEN == 16
\* the AEAD nonce: &self.to_le_bytes()[..12]
AEAD_NONCE_LEN == 12
\* the AES-256-GCM tag that seal_in_place_append_tag appends
TAG_LEN == 16
\* pub type DbSalt = [u8; 16]
DB_SALT_LEN == 16
\* for i in 0..3 of the validation loop
MAX_TRIES == 3
\* retry(3, ...) of the password confirmation
CONFIRM_RETRIES == 3
\* for i in 0..4 of main.rs's confirmation loop
MAIN_CONFIRM_ROUNDS == 4

(* Bounds of the model *)

\* plaintexts of a record have 0..MaxLen bytes
MaxLen == 2
\* runs of the protocol on one store
MaxRuns == 2
\* records sealed into the store
MaxRecords == 1
\* calls made on one CredentialGuard in the direct-call specification
MaxCalls == 4
\* content calls (write_content, read_content) of one run
MaxStoreCalls == 1
\* calls made on one store directory in the store's own specification
MaxStoreOps == 3
\* seals made one after the other by one process
MaxSeals == 2
\* the largest `max` that retry is called with in its own specification
MaxRetries == 4
\* callbacks run one after the other on one store
MaxEntryCalls == 2
\* configuration texts parsed one after the other
MaxParses == 2
\* calls of init made one after the other on one directory
MaxInits == 2

-----------------------------------------------------------------------------
(* Bytes.  A byte of a buffer is <<kind, ctx, x>>:                          *)
(*   <<"raw", <<>>, b>>                   the byte b                        *)
(*   <<"ks",  <<key, n12, i>>, b>>        b XOR keystream byte i of         *)
(*                                        AES-GCM under (key, n12)          *)
(*   <<"mac", <<key, n12, aad, pt, j>>, d>>  d XOR byte j of the GCM tag    *)
(*                                        of the encryption of pt under     *)
(*                                        (key, n12) with data aad          *)
(* where key, aad and pt are written run-length encoded.                    *)

Raw(b) == <<"raw", <<>>, b>>

RawBytes(s) == [i \in 1..Len(s) |-> Raw(s[i])]

IsRaw(e) == e[1] = "raw"

\* bit k (0..7) of the byte value v
Bit(v, k) == (v \div (2 ^ k)) % 2

\* the byte value v with bit k flipped
FlipBitVal(v, k) == IF Bit(v, k) = 1 THEN v - 2 ^ k ELSE v + 2 ^ k

\* a buffer byte with bit k flipped: XOR commutes with the keystream and the tag
FlipByte(e, k) == <<e[1], e[2], FlipBitVal(e[3], k)>>

\* buffer b with bit k of its byte i flipped
FlipBit(b, i, k) == [b EXCEPT ![i] = FlipByte(b[i], k)]

\* u128::to_le_bytes of a small value (v < 2^24), n bytes
ToLeBytes(v, n) ==
    [i \in 1..n |-> IF i <= 3 THEN (v \div (256 ^ (i - 1))) % 256 ELSE 0]

-----------------------------------------------------------------------------
(* ring::aead with AES_256_GCM, as an ideal AEAD *)

RECURSIVE Runs(_)
\* the run-length encoding of a string: a one-to-one way of writing it, used
\* for the strings a symbolic byte names
Runs(s) ==
    IF s = <<>> THEN <<>>
    ELSE LET r == Runs(Tail(s))
         IN  IF r # <<>> /\ r[1][1] = Head(s)
             THEN <<<<Head(s), r[1][2] + 1>>>> \o Tail(r)
             ELSE <<<<Head(s), 1>>>> \o r

\* how a symbolic byte names a key <<kind, a, b>>
KeyName(key) == <<key[1], Runs(key[2]), Runs(key[3])>>

\* the ciphertext and the tag appended to it
AeadSeal(key, n12, aad, pt) ==
    LET kn == KeyName(key)
        ctx == <<kn, n12, Runs(aad), Runs(pt)>>
    IN  [i \in 1..Len(pt) |-> <<"ks", <<kn, n12, i>>, pt[i]>>]
        \o [j \in 1..TAG_LEN |-> <<"mac", ctx \o <<j>>, 0>>]

\* what byte e at position i decrypts to under (key, n12); -1 stands for a
\* byte the keystream of (key, n12) turns into noise
AeadDecryptByte(kn, n12, i, e) ==
    IF e[1] = "ks" /\ e[2] = <<kn, n12, i>> THEN e[3] ELSE -1

\* open_in_place of ring: Err when the input is shorter than a tag or the tag
\* does not verify, else the plaintext
AeadOpen(key, n12, aad, inout) ==
    IF Len(inout) < TAG_LEN
    THEN [st |-> "Err", val |-> <<>>]
    ELSE LET n == Len(inout) - TAG_LEN
             kn == KeyName(key)
             pt == [i \in 1..n |-> AeadDecryptByte(kn, n12, i, inout[i])]
             tag == SubSeq(inout, n + 1, Len(inout))
             ctx == <<kn, n12, Runs(aad), Runs(pt)>>
             expected == [j \in 1..TAG_LEN |-> <<"mac", ctx \o <<j>>, 0>>]
         IN  IF tag = expected
             THEN [st |-> "Ok", val |-> pt]
             ELSE [st |-> "Err", val |-> <<>>]

-----------------------------------------------------------------------------
(* src/security.rs: Nonce                                                   *)
(* A Nonce holds a u128.  The model writes the value as its 16 base-256     *)
(* digits, most significant first; a digit is a buffer byte, so that a      *)
(* nonce decoded from bytes that are not plain keeps them.                  *)

RECURSIVE Reverse(_)
Reverse(s) == IF s = <<>> THEN <<>> ELSE Reverse(Tail(s)) \o <<Head(s)>>

RECURSIVE LeIncrement(_)
\* the little-endian digit string s plus one, wrapping at its width
LeIncrement(s) ==
    IF s = <<>> THEN <<>>
    ELSE IF Head(s) = 255 THEN <<0>> \o LeIncrement(Tail(s))
    ELSE <<Head(s) + 1>> \o Tail(s)

\* the value is u128::MAX: every digit is 0xFF
NonceIsMax(n) == \A i \in 1..Len(n) : IsRaw(n[i]) /\ n[i][3] = 255

\* the value is known when all its digits are plain bytes
NonceIsKnown(n) == \A i \in 1..Len(n) : IsRaw(n[i])

\* the bytes of the value, most significant first
NonceToBeBytes(n) == n

\* Nonce::to_le_bytes: least significant digit first
NonceToLeBytes(n) == Reverse(n)

\* Nonce::from_le_bytes
NonceFromLeBytes(bytes) == Reverse(bytes)

\* aead::Nonce::assume_unique_for_key of 12 bytes: the values of plain bytes,
\* or the bytes themselves when some of them is not plain
AeadNonce(bytes) ==
    IF \A i \in 1..Len(bytes) : IsRaw(bytes[i])
    THEN <<"known", Runs([i \in 1..Len(bytes) |-> bytes[i][3]])>>
    ELSE <<"sym", bytes>>

\* <Nonce as NonceSequence>::advance, what it returns: the AEAD nonce made of
\* the first 12 bytes of to_le_bytes(); self.0 += 1 then panics on u128::MAX
\* with overflow checks
NonceAdvance(n) ==
    IF NonceIsMax(n) /\ overflow_checks
    THEN [st |-> "panic", n12 |-> <<>>]
    ELSE [st |-> "Ok",
          n12 |-> AeadNonce(SubSeq(NonceToLeBytes(n), 1, AEAD_NONCE_LEN))]

\* <Nonce as NonceSequence>::advance, the value it leaves in self.0 when it
\* returns: the value plus one, wrapped to 128 bits without overflow checks
NonceAfterAdvance(n) ==
    IF NonceIsKnown(n)
    THEN Reverse(RawBytes(LeIncrement([i \in 1..Len(n) |-> Reverse(n)[i][3]])))
    ELSE n

-----------------------------------------------------------------------------
(* src/security.rs: key derivation, seal_in_place, open_in_place *)

RECURSIVE HmacKey(_)
\* the HMAC key that pbkdf2::derive makes of the secret: a secret of at most
\* one block of SHA-512 (128 bytes; longer ones are hashed first) is padded
\* with zero bytes to the block, so trailing zero bytes make no difference
HmacKey(secret) ==
    IF secret # <<>> /\ secret[Len(secret)] = 0
    THEN HmacKey(SubSeq(secret, 1, Len(secret) - 1))
    ELSE secret

\* a salt that leaves the username out
UserSalt_no_user(db_salt, user) == db_salt

\* the salt of the derivation: salt.extend(db_salt); salt.extend(username)
UserSalt(db_salt, user) == db_salt \o user

\* what pbkdf2::derive is given: the salt and the secret
KdfInput(db_salt, user, pass) == <<UserSalt(db_salt, user), pass>>

\* derive_key_from_credentials: PBKDF2-HMAC-SHA512 with the salt
\* db_salt ++ username and the password as the HMAC key; beyond that an ideal
\* function of the salt and the key
derive_key_from_credentials(db_salt, user, pass) ==
    <<"kdf", UserSalt(db_salt, user), HmacKey(pass)>>

\* a Key made of 32 given bytes
KeyOfBytes(bytes) == <<"rnd", bytes, <<>>>>

\* seal_in_place(key, aad, plaintext); rnd is what SYSTEM_RNG.fill gave to
\* Nonce::random: <<>> (an error) or <<nonce>>
seal_in_place(key, aad, plaintext, rnd) ==
    IF rnd = <<>>
    THEN [st |-> "Err", nonce |-> <<>>, val |-> <<>>]
    ELSE LET nonce == rnd[1]
             adv == NonceAdvance(nonce)
         IN  IF adv.st = "panic"
             THEN [st |-> "panic", nonce |-> <<>>, val |-> <<>>]
             ELSE [st |-> "Ok", nonce |-> nonce,
                   val |-> AeadSeal(key, adv.n12, aad, plaintext)]

\* open_in_place(key, aad, nonce, ciphertext)
open_in_place(key, aad, nonce, ciphertext) ==
    LET adv == NonceAdvance(nonce)
    IN  IF adv.st = "panic"
        THEN [st |-> "panic", val |-> <<>>]
        ELSE AeadOpen(key, adv.n12, aad, ciphertext)

-----------------------------------------------------------------------------
(* src/security.rs: CredentialGuard *)

\* CredentialGuard::new
CredentialGuard_new(db_salt, user, pass) ==
    [salt |-> db_salt,
     credential_key |-> derive_key_from_credentials(db_salt, user, pass)]

\* an update that takes the new password and leaves the username out
update_credentials_no_user(g, user, pass) ==
    [g EXCEPT !.credential_key = derive_key_from_credentials(g.salt, <<>>, pass)]

\* CredentialGuard::update_credentials
update_credentials(g, user, pass) ==
    [g EXCEPT !.credential_key = derive_key_from_credentials(g.salt, user, pass)]

\* a Vec split at len - Nonce::len(): the subtraction underflows (or split_off
\* finds at > len) when the buffer is shorter than a nonce, which panics
SplitOffPanics(bytes) == Len(bytes) < NONCE_LEN

\* a split that leaves the nonce in the buffer
SplitHead_whole(bytes) == bytes

\* what stays in the Vec after split_off: all but the last Nonce::len() bytes
SplitHead(bytes) == SubSeq(bytes, 1, Len(bytes) - NONCE_LEN)

\* a nonce read from the front of the buffer
SplitNonce_front(bytes) == NonceFromLeBytes(SubSeq(bytes, 1, NONCE_LEN))

\* what split_off returns, through Nonce::from_le_bytes: the last
\* Nonce::len() bytes
SplitNonce(bytes) ==
    NonceFromLeBytes(SubSeq(bytes, Len(bytes) - NONCE_LEN + 1, Len(bytes)))

\* a failure that hands back a guard whose credentials were cleared
ErrGuard_cleared(g) ==
    [g EXCEPT !.credential_key = derive_key_from_credentials(g.salt, <<>>, <<>>)]

\* what try_decrypt_key hands back when the key does not open: Err(self)
ErrGuard(g) == g

\* CredentialGuard::try_decrypt_key: Ok(DataGuard), Err(self), or a panic
\* (split_off on a short buffer, the nonce overflow, key.try_into().unwrap()
\* on a plaintext that is not KEY_LEN long)
try_decrypt_key(g, enc) ==
    IF SplitOffPanics(enc)
    THEN [st |-> "panic", val |-> <<>>]
    ELSE LET r == open_in_place(g.credential_key, <<>>, SplitNonce(enc), SplitHead(enc))
         IN  CASE r.st = "panic" -> [st |-> "panic", val |-> <<>>]
               [] r.st = "Err" -> [st |-> "Err", val |-> ErrGuard(g)]
               [] OTHER ->
                    IF Len(r.val) # KEY_LEN
                    THEN [st |-> "panic", val |-> <<>>]
                    ELSE [st |-> "Ok",
                          val |-> [guard |-> g, key |-> KeyOfBytes(r.val)]]

\* a call that leaves its caller a usable copy of the guard when it unlocks
GuardAfterTry_kept(r) ==
    CASE r.st = "Err" -> <<r.val>>
      [] r.st = "Ok"  -> <<r.val.guard>>
      [] OTHER        -> <<>>

\* the caller's guard after try_decrypt_key(self, ..) returned r: self was
\* moved into the call, and only Err(g) hands it back
GuardAfterTry(r) == IF r.st = "Err" THEN <<r.val>> ELSE <<>>

\* CredentialGuard::generate_encrypted_key; rndkey is what SYSTEM_RNG.fill
\* gave for the key (<<>>: an error, <<bytes>>), rnd what it gave for the nonce
generate_encrypted_key(g, rndkey, rnd) ==
    IF rndkey = <<>>
    THEN [st |-> "Err", val |-> <<>>]
    ELSE LET s == seal_in_place(g.credential_key, <<>>, rndkey[1], rnd)
         IN  IF s.st = "Ok"
             THEN [st |-> "Ok", val |-> s.val \o NonceToLeBytes(s.nonce)]
             ELSE [st |-> s.st, val |-> <<>>]

-----------------------------------------------------------------------------
(* src/security.rs: DataGuard; src/uuid.rs *)

\* associated data that does not depend on the identifier
Uuid_to_bytes_fixed(uuid) == ToLeBytes(0, 16)

\* Uuid::to_bytes
Uuid_to_bytes(uuid) == ToLeBytes(uuid, 16)

\* DataGuard::seal_in_place
DataGuard_seal_in_place(dg, uuid, plaintext, rnd) ==
    LET s == seal_in_place(dg.key, Uuid_to_bytes(uuid), plaintext, rnd)
    IN  IF s.st = "Ok"
        THEN [st |-> "Ok", val |-> s.val \o NonceToLeBytes(s.nonce)]
        ELSE [st |-> s.st, val |-> <<>>]

\* DataGuard::open_in_place
DataGuard_open_in_place(dg, uuid, ciphertext) ==
    IF SplitOffPanics(ciphertext)
    THEN [st |-> "panic", val |-> <<>>]
    ELSE open_in_place(dg.key, Uuid_to_bytes(uuid), SplitNonce(ciphertext),
                       SplitHead(ciphertext))

-----------------------------------------------------------------------------
(* The values the inputs are drawn from *)

\* the bytes a plaintext is made of
PtBytes == {72, 105}

\* plaintexts: every string of 0..MaxLen such bytes
Plaintexts == UNION {[1..n -> PtBytes] : n \in 0..MaxLen}

\* record identifiers
Uuids == {1, 2}

\* a u128 all of whose digits are d, but for the top `hi` digits, which are h
NonceOf(h, hi, d) ==
    [i \in 1..NONCE_LEN |-> IF i <= hi THEN Raw(h) ELSE Raw(d)]

\* what Nonce::random can draw: 0, 2^96 - 1 (the next value carries out of the
\* AEAD nonce) and u128::MAX
NonceSamples ==
    {NonceOf(0, 0, 0), NonceOf(0, NONCE_LEN - AEAD_NONCE_LEN, 255), NonceOf(255, 0, 255)}

\* what SYSTEM_RNG.fill gives to Nonce::random: an error or a value
NonceDraws == {<<>>} \cup {<<n>> : n \in NonceSamples}

\* random data keys
DataKeySamples == {[i \in 1..KEY_LEN |-> 7], [i \in 1..KEY_LEN |-> 9]}

KeyDraws == {<<>>} \cup {<<k>> : k \in DataKeySamples}

\* what generate_db_salt drew when the store was created
DbSalts == {[i \in 1..DB_SALT_LEN |-> 1]}

Usernames == {<<97>>, <<98>>}

\* passwords: "", "p" and "p\0"
Passwords == {<<>>, <<112>>, <<112, 0>>}

\* the passwords that the runs of the protocol are given
TypedPasswords == {<<>>, <<112>>}

-----------------------------------------------------------------------------
(* The state of a process that runs no protocol *)

NoLocals ==
    /\ variant = "common"
    /\ pc = "off"
    /\ cfg_user = <<>>
    /\ cfg_password = <<>>
    /\ salt = <<>>
    /\ username = <<>>
    /\ password = <<>>
    /\ password2 = <<>>
    /\ encrypted_key = <<>>
    /\ loop_i = 0
    /\ outcome = ""

NoRun ==
    /\ NoLocals
    /\ cred_guard = <<>>
    /\ hist = <<>>

\* a process that has opened no store: the security module used on its own,
\* as its unit test does
NoStore ==
    /\ salt_file = <<>>
    /\ key_file = <<>>
    /\ records = <<>>
    /\ metas = <<>>
    /\ index_file = <<>>
    /\ config_dir = <<>>
    /\ entry_dirs = {}
    /\ exists = {}

NoCall == [name |-> "none", uuid |-> 0, pt |-> <<>>, rnd |-> <<>>,
           prev |-> "none", at |-> <<>>, open_uuid |-> 0]

NoRet == [st |-> "none", val |-> <<>>]

-----------------------------------------------------------------------------
(* Direct calls of DataGuard: seal a record, damage the sealed bytes, open *)

\* a DataGuard comes from CredentialGuard::try_decrypt_key alone: wrap a
\* random key under some credentials and unwrap it
GuardInit ==
    /\ overflow_checks \in BOOLEAN
    /\ NoStore
    /\ NoRun
    /\ \E s \in DbSalts, k \in DataKeySamples :
         LET g == CredentialGuard_new(s, <<97>>, <<112>>)
             w == generate_encrypted_key(g, <<k>>, <<NonceOf(0, 0, 0)>>)
             t == try_decrypt_key(g, w.val)
         IN  /\ w.st = "Ok"
             /\ t.st = "Ok"
             /\ data_guard = <<t.val>>
    /\ buf = <<>>
    /\ ret = NoRet
    /\ op = NoCall

\* DataGuard::seal_in_place(uuid, plaintext); buf is the Vec it returned
ApiSeal ==
    /\ op.name = "none"
    /\ \E uuid \in Uuids, pt \in Plaintexts, rnd \in NonceDraws :
         LET r == DataGuard_seal_in_place(data_guard[1], uuid, pt, rnd)
         IN  /\ ret' = [st |-> r.st, val |-> <<>>]
             /\ buf' = r.val
             /\ op' = [NoCall EXCEPT !.name = "seal", !.uuid = uuid, !.pt = pt,
                                     !.rnd = rnd]
    /\ UNCHANGED <<overflow_checks, storeVars, runVars, data_guard>>

\* one bit of the sealed bytes is flipped: bit k of byte i
ApiFlip ==
    /\ op.name = "seal"
    /\ ret.st = "Ok"
    /\ \E i \in 1..Len(buf), k \in 0..7 :
         /\ buf' = FlipBit(buf, i, k)
         /\ op' = [op EXCEPT !.name = "flip", !.at = <<i, k>>]
    /\ UNCHANGED <<overflow_checks, storeVars, runVars, data_guard, ret>>

\* the sealed bytes are cut to their first or to their last n bytes, n less
\* than a tag and a nonce
ApiCut ==
    /\ op.name = "seal"
    /\ ret.st = "Ok"
    /\ \E n \in 0..(TAG_LEN + NONCE_LEN - 1), first \in BOOLEAN :
         /\ buf' = IF first THEN SubSeq(buf, 1, n)
                   ELSE SubSeq(buf, Len(buf) - n + 1, Len(buf))
         /\ op' = [op EXCEPT !.name = "cut", !.at = <<n>>]
    /\ UNCHANGED <<overflow_checks, storeVars, runVars, data_guard, ret>>

\* DataGuard::open_in_place(uuid, buf)
ApiOpen ==
    /\ op.name \in {"seal", "flip", "cut"}
    /\ op.name = "seal" => ret.st = "Ok"
    /\ \E uuid \in Uuids :
         /\ ret' = DataGuard_open_in_place(data_guard[1], uuid, buf)
         /\ op' = [op EXCEPT !.name = "open", !.prev = op.name, !.open_uuid = uuid]
    /\ UNCHANGED <<overflow_checks, storeVars, runVars, data_guard, buf>>

GuardNext ==
    \/ ApiSeal
    \/ ApiFlip
    \/ ApiCut
    \/ ApiOpen

SpecGuard == GuardInit /\ [][GuardNext]_vars

-----------------------------------------------------------------------------
(* Seals one after the other in one process: records sealed by its          *)
(* DataGuard, keys wrapped by the CredentialGuard inside it.  hist lists the *)
(* seals that returned: the key, the nonce Nonce::random drew and the AEAD   *)
(* nonce that ring was given.                                                *)

\* the AEAD nonce under which the n ciphertext bytes and the tag of `sealed`
\* were computed
UsedNonce(sealed, n) == sealed[n + 1][2][2]

SealsInit ==
    /\ overflow_checks \in BOOLEAN
    /\ NoStore
    /\ NoLocals
    /\ \E s \in DbSalts, k \in DataKeySamples :
         LET g == CredentialGuard_new(s, <<97>>, <<112>>)
             w == generate_encrypted_key(g, <<k>>, <<NonceOf(0, 0, 0)>>)
             t == try_decrypt_key(g, w.val)
         IN  /\ w.st = "Ok"
             /\ t.st = "Ok"
             /\ data_guard = <<t.val>>
             /\ cred_guard = <<t.val.guard>>
    /\ hist = [calls |-> 0, seals |-> <<>>]
    /\ buf = <<>>
    /\ ret = NoRet
    /\ op = NoCall

\* DataGuard::seal_in_place(uuid, plaintext)
SealRecord ==
    /\ hist.calls < MaxSeals
    /\ \E uuid \in Uuids, pt \in Plaintexts, rnd \in NonceDraws :
       \E r \in {DataGuard_seal_in_place(data_guard[1], uuid, pt, rnd)} :
         /\ ret' = [st |-> r.st, val |-> <<>>]
         /\ buf' = r.val
         /\ op' = [NoCall EXCEPT !.name = "seal", !.uuid = uuid, !.pt = pt,
                                 !.rnd = rnd]
         /\ hist' = [calls |-> hist.calls + 1,
                     seals |-> IF r.st = "Ok"
                               THEN Append(hist.seals,
                                        [key |-> "data", rnd |-> rnd[1],
                                         n12 |-> UsedNonce(r.val, Len(pt))])
                               ELSE hist.seals]
    /\ UNCHANGED <<overflow_checks, storeVars, localVars, cred_guard, data_guard>>

\* CredentialGuard::generate_encrypted_key()
WrapKey ==
    /\ hist.calls < MaxSeals
    /\ \E rk \in KeyDraws, rnd \in NonceDraws :
       \E r \in {generate_encrypted_key(cred_guard[1], rk, rnd)} :
         /\ ret' = [st |-> r.st, val |-> <<>>]
         /\ buf' = r.val
         /\ op' = [NoCall EXCEPT !.name = "wrap", !.pt = IF rk = <<>> THEN <<>> ELSE rk[1],
                                 !.rnd = rnd]
         /\ hist' = [calls |-> hist.calls + 1,
                     seals |-> IF r.st = "Ok"
                               THEN Append(hist.seals,
                                        [key |-> "cred", rnd |-> rnd[1],
                                         n12 |-> UsedNonce(r.val, KEY_LEN)])
                               ELSE hist.seals]
    /\ UNCHANGED <<overflow_checks, storeVars, localVars, cred_guard, data_guard>>

SealsNext ==
    \/ SealRecord
    \/ WrapKey

SpecSeals == SealsInit /\ [][SealsNext]_vars

-----------------------------------------------------------------------------
(* Direct calls of CredentialGuard on one wrapped key: a guard is built with *)
(* some credentials, and then tried and given new credentials in any order.  *)
(* hist remembers what the guard itself does not hold: the credentials that  *)
(* wrapped the key, the key, the credentials last given to the guard, and    *)
(* the number of tries that failed.                                          *)

Credentials == Usernames \X Passwords

CredInit ==
    /\ overflow_checks \in BOOLEAN
    /\ NoStore
    /\ NoLocals
    /\ data_guard = <<>>
    /\ \E s \in DbSalts, by \in Credentials, k \in DataKeySamples,
          n \in NonceSamples, c \in Credentials :
         LET w == generate_encrypted_key(CredentialGuard_new(s, by[1], by[2]),
                                         <<k>>, <<n>>)
         IN  /\ w.st = "Ok"
             /\ buf = w.val
             /\ cred_guard = <<CredentialGuard_new(s, c[1], c[2])>>
             /\ hist = [by |-> by, key |-> k, cur |-> c, fails |-> 0, calls |-> 0,
                        damage |-> <<>>]
    /\ ret = NoRet
    /\ op = [name |-> "new", before |-> <<>>]

\* what may happen to the bytes of a key file before they are read: they are
\* cut to their first n bytes, one bit of them is flipped, or the 16 bytes of
\* the stored nonce are overwritten
Damages ==
    {<<"cut", n>> : n \in {1, NONCE_LEN - 1, NONCE_LEN + TAG_LEN}}
    \cup {<<"flip", i, 0>> : i \in {1, KEY_LEN + 1}}
    \cup {<<"nonce", NonceOf(255, 0, 255)>>}

\* the bytes after the damage d
Damaged(bytes, d) ==
    CASE d[1] = "cut"  -> SubSeq(bytes, 1, d[2])
      [] d[1] = "flip" -> FlipBit(bytes, d[2], d[3])
      [] OTHER         -> SplitHead(bytes) \o NonceToLeBytes(d[2])

\* the stored wrapped key is damaged before the guard is used
CredDamage ==
    /\ op.name = "new"
    /\ hist.damage = <<>>
    /\ \E d \in Damages :
         /\ buf' = Damaged(buf, d)
         /\ hist' = [hist EXCEPT !.damage = <<d>>]
    /\ UNCHANGED <<overflow_checks, storeVars, localVars, cred_guard, data_guard,
                   ret, op>>

\* CredentialGuard::update_credentials(username, password)
CredUpdate ==
    /\ cred_guard # <<>>
    /\ hist.calls < MaxCalls
    /\ \E c \in Credentials :
         /\ cred_guard' = <<update_credentials(cred_guard[1], c[1], c[2])>>
         /\ hist' = [hist EXCEPT !.cur = c, !.calls = @ + 1]
    /\ op' = [name |-> "update_credentials", before |-> cred_guard]
    /\ UNCHANGED <<overflow_checks, storeVars, localVars, data_guard, buf, ret>>

\* CredentialGuard::try_decrypt_key(buf.clone()): the guard is moved into the
\* call; Ok keeps it inside the DataGuard, Err hands it back
CredTry ==
    /\ cred_guard # <<>>
    /\ hist.calls < MaxCalls
    /\ \E r \in {try_decrypt_key(cred_guard[1], buf)} :
         /\ ret' = r
         /\ cred_guard' = IF r.st = "Err" THEN <<r.val>> ELSE <<>>
         /\ data_guard' = IF r.st = "Ok" THEN <<r.val>> ELSE <<>>
         /\ hist' = [hist EXCEPT !.fails = IF r.st = "Err" THEN @ + 1 ELSE @,
                                 !.calls = @ + 1]
    /\ op' = [name |-> "try_decrypt_key", before |-> cred_guard]
    /\ UNCHANGED <<overflow_checks, storeVars, localVars, buf>>

CredNext ==
    \/ CredDamage
    \/ CredUpdate
    \/ CredTry

SpecCred == CredInit /\ [][CredNext]_vars

-----------------------------------------------------------------------------
(* Direct calls of derive_key_from_credentials, as CredentialGuard::new and  *)
(* update_credentials make them: two calls with the same database salt, each *)
(* with a username and a password.                                           *)

\* database salts: the one of the other specifications, and one that ends
\* with the byte of a username
KdfSalts == DbSalts \cup {[i \in 1..DB_SALT_LEN |-> IF i = DB_SALT_LEN THEN 97 ELSE 1]}

\* usernames: "a", "b", "" and "a\0"
KdfUsernames == Usernames \cup {<<>>, <<97, 0>>}

KdfCredentials == KdfUsernames \X Passwords

KdfInit ==
    /\ overflow_checks \in BOOLEAN
    /\ NoStore
    /\ NoRun
    /\ data_guard = <<>>
    /\ buf = <<>>
    /\ ret = NoRet
    /\ \E s \in KdfSalts, a \in KdfCredentials, b \in KdfCredentials :
         op = [name |-> "none", salt |-> s, a |-> a, b |-> b]

\* one call: what pbkdf2::derive is given and the key that comes back
KdfCall(db_salt, c) ==
    [input |-> KdfInput(db_salt, c[1], c[2]),
     key |-> derive_key_from_credentials(db_salt, c[1], c[2])]

\* the two calls are made
KdfDerive ==
    /\ op.name = "none"
    /\ ret' = [st |-> "Ok", val |-> <<KdfCall(op.salt, op.a), KdfCall(op.salt, op.b)>>]
    /\ op' = [op EXCEPT !.name = "derive"]
    /\ UNCHANGED <<overflow_checks, storeVars, runVars, data_guard, buf>>

KdfNext ==
    \/ KdfDerive

SpecKdf == KdfInit /\ [][KdfNext]_vars

-----------------------------------------------------------------------------
(* The credential verification protocol on a store: runs of                  *)
(* get_and_validate_credentials (variant "common": src/common.rs and the     *)
(* same function of src/lib.rs) or of main (variant "main": src/main.rs),    *)
(* one after the other, and the content a run reads and writes once it holds *)
(* a DataGuard.                                                              *)

\* the salt file of an opened store: what generate_db_salt drew, or nothing if
\* Store::open created the file and failed to write it
StoreSalts == DbSalts \cup {<<>>}

\* the files that Store::open makes sure of
StoreFiles == {"salt", "key", "index"}

\* Config.user, Config.password
ConfigUsers == {<<>>} \cup {<<u>> : u \in Usernames}
ConfigPasswords == {<<>>} \cup {<<p>> : p \in TypedPasswords}

\* what prompt_username returns: Ok(line), Err(io error), or the panic of
\* .expect("Cannot read from stdin") at end of input
UserPrompts == {<<"Ok", u>> : u \in Usernames} \cup {<<"Err">>, <<"Eof">>}

\* what prompt_password returns: Ok(password) or Err("Error getting a password")
PasswordPrompts == {<<"Ok", p>> : p \in TypedPasswords} \cup {<<"Err">>}

\* the texts of journal entries
EntryTexts == {<<72>>, <<72, 105>>}

\* what SYSTEM_RNG.fill gives to Nonce::random when content is sealed (the
\* extreme values are drawn in the direct calls of DataGuard)
ContentNonceDraws == {<<>>, <<NonceOf(0, 0, 0)>>}

\* what it gives when the data key is wrapped
WrapNonceDraws == {<<>>, <<NonceOf(0, 0, 0)>>, <<NonceOf(255, 0, 255)>>}

\* how many bytes of the wrapped key reach the key file when write_all fails
PartialWrites == {0, 40}

\* a caller that does not look at the stored key
NeedsKey_always(ek) == TRUE

\* encrypted_key.is_empty(): the store has no key yet
NeedsKey(ek) == ek = <<>>

\* what hist records of a run that has not started
NewHist(runs, prov, keys, texts) ==
    [runs |-> runs,         \* runs started on this store so far
     began_empty |-> FALSE, \* get_key gave this run no key
     confirms |-> 0,        \* confirmation rounds of this run
     gens |-> 0,            \* generate_encrypted_key calls of this run
     updates |-> 0,         \* update_key calls of this run
     tries |-> 0,           \* try_decrypt_key calls of this run
     oks |-> 0,             \* those that returned Ok
     reprompts |-> 0,       \* re-prompts of this run after a failed try
     calls |-> 0,           \* content calls of this run
     first |-> <<>>,        \* the first try_decrypt_key of this run
     prov |-> prov,         \* who provisioned the store, with which key
     keys |-> keys,         \* the data keys unlocked so far, in any run
     texts |-> texts]       \* <<uuid, text, run>> of the content sealed last

Init ==
    /\ overflow_checks \in BOOLEAN
    /\ variant \in {"common", "main"}
    /\ salt_file \in StoreSalts
    /\ key_file = <<>>
    /\ records = [u \in Uuids |-> <<>>]
    /\ metas = [u \in Uuids |-> <<>>]
    /\ index_file = <<>>
    /\ config_dir = <<>>
    /\ entry_dirs = Uuids
    /\ exists = StoreFiles
    /\ pc = "start"
    /\ cfg_user \in ConfigUsers
    /\ cfg_password \in ConfigPasswords
    /\ salt = <<>>
    /\ username = <<>>
    /\ password = <<>>
    /\ password2 = <<>>
    /\ encrypted_key = <<>>
    /\ cred_guard = <<>>
    /\ data_guard = <<>>
    /\ loop_i = 0
    /\ outcome = ""
    /\ hist = NewHist(1, <<>>, {}, {})
    /\ buf = <<>>
    /\ ret = NoRet
    /\ op = NoCall

\* the run ends: Ok(..), Err(message) or "panic"
Ends(o) ==
    /\ pc' = "done"
    /\ outcome' = o

\* get_and_validate_credentials up to the username: get_salt()?, get_key()?,
\* cfg.user or prompt_username()?, cfg.password
CommonBegin ==
    /\ pc = "start"
    /\ variant = "common"
    /\ \E io \in {"ok", "get_salt", "get_key"}, pu \in UserPrompts :
         IF io # "ok"
         THEN /\ Ends("io")
              /\ UNCHANGED <<salt, encrypted_key, username, password, hist>>
         ELSE IF cfg_user = <<>> /\ pu[1] # "Ok"
         THEN /\ Ends(IF pu[1] = "Eof" THEN "panic" ELSE "prompt")
              /\ salt' = salt_file
              /\ encrypted_key' = key_file
              /\ UNCHANGED <<username, password, hist>>
         ELSE /\ salt' = salt_file
              /\ encrypted_key' = key_file
              /\ username' = IF cfg_user # <<>> THEN cfg_user[1] ELSE pu[2]
              /\ password' = cfg_password
              /\ pc' = IF NeedsKey(key_file) THEN "confirm" ELSE "password"
              /\ hist' = [hist EXCEPT !.began_empty = NeedsKey(key_file)]
              /\ UNCHANGED outcome
    /\ UNCHANGED <<overflow_checks, storeVars, variant, cfg_user, cfg_password,
                   password2, cred_guard, data_guard, loop_i, apiVars>>

\* a retry that calls again after every failure of the loop
RetryAgain_any(max, made) == made - 1 < max

\* retry(max, func), after call number `made` of func has failed: it calls
\* func again unless the loop is over or `i == max - 1`
RetryAgain(max, made) == made - 1 < max /\ made - 1 # max - 1

\* one call of the closure that retry(3, ..) runs on first use:
\* with a configured password, prompt_password()? and compare;
\* without, prompt_and_confirm_password
CommonConfirm ==
    /\ pc = "confirm"
    /\ variant = "common"
    /\ \E p1 \in PasswordPrompts, p2 \in PasswordPrompts :
         LET r == IF password # <<>>
                  THEN IF p1[1] # "Ok" THEN <<"Err", "prompt">>
                       ELSE IF password[1] = p1[2] THEN <<"Ok", password[1]>>
                       ELSE <<"Err", "Passwords do not match">>
                  ELSE IF p1[1] # "Ok" \/ p2[1] # "Ok" THEN <<"Err", "prompt">>
                       ELSE IF p1[2] = p2[2] THEN <<"Ok", p1[2]>>
                       ELSE <<"Err", "Passwords do not match">>
         IN  IF r[1] = "Ok"
             THEN /\ password' = <<r[2]>>
                  /\ pc' = "password"
                  /\ loop_i' = 0
                  /\ UNCHANGED outcome
             ELSE IF RetryAgain(CONFIRM_RETRIES, loop_i + 1)
             THEN /\ loop_i' = loop_i + 1
                  /\ UNCHANGED <<password, pc, outcome>>
             ELSE /\ Ends(r[2])
                  /\ UNCHANGED <<password, loop_i>>
    /\ hist' = [hist EXCEPT !.confirms = @ + 1]
    /\ UNCHANGED <<overflow_checks, storeVars, variant, cfg_user, cfg_password,
                   salt, username, password2, encrypted_key, cred_guard,
                   data_guard, apiVars>>

\* the password if there is none yet (prompt_password()?), and
\* CredentialGuard::new(salt.try_into().expect("Salt is the wrong size"), ..)
CommonNewGuard ==
    /\ pc = "password"
    /\ variant = "common"
    /\ \E pp \in PasswordPrompts :
         IF password = <<>> /\ pp[1] # "Ok"
         THEN /\ Ends("prompt")
              /\ UNCHANGED <<password, cred_guard>>
         ELSE IF Len(salt) # DB_SALT_LEN
         THEN /\ Ends("panic")
              /\ password' = IF password # <<>> THEN password ELSE <<pp[2]>>
              /\ UNCHANGED cred_guard
         ELSE LET pw == IF password # <<>> THEN password[1] ELSE pp[2]
              IN  /\ password' = <<pw>>
                  /\ cred_guard' = <<CredentialGuard_new(salt, username, pw)>>
                  /\ pc' = IF NeedsKey(encrypted_key) THEN "provision" ELSE "try"
                  /\ UNCHANGED outcome
    /\ loop_i' = 0
    /\ UNCHANGED <<overflow_checks, storeVars, variant, cfg_user, cfg_password,
                   salt, username, password2, encrypted_key, data_guard, hist,
                   apiVars>>

\* main up to CredentialGuard::new: cfg.user or prompt_username()?,
\* cfg.password or prompt_password()?, Store::open()?, get_salt()?,
\* get_key()?, salt.try_into() or "Salt is the wrong size"
MainBegin ==
    /\ pc = "start"
    /\ variant = "main"
    /\ \E pu \in UserPrompts, pp \in PasswordPrompts,
          io \in {"ok", "open", "get_salt", "get_key"} :
         IF cfg_user = <<>> /\ pu[1] # "Ok"
         THEN /\ Ends(IF pu[1] = "Eof" THEN "panic" ELSE "prompt")
              /\ UNCHANGED <<username, password, salt, encrypted_key,
                             cred_guard, hist>>
         ELSE IF cfg_password = <<>> /\ pp[1] # "Ok"
         THEN /\ Ends("prompt")
              /\ username' = IF cfg_user # <<>> THEN cfg_user[1] ELSE pu[2]
              /\ UNCHANGED <<password, salt, encrypted_key, cred_guard, hist>>
         ELSE LET u == IF cfg_user # <<>> THEN cfg_user[1] ELSE pu[2]
                  pw == IF cfg_password # <<>> THEN cfg_password[1] ELSE pp[2]
              IN  /\ username' = u
                  /\ password' = <<pw>>
                  /\ IF io # "ok"
                     THEN /\ Ends("io")
                          /\ UNCHANGED <<salt, encrypted_key, cred_guard, hist>>
                     ELSE IF Len(salt_file) # DB_SALT_LEN
                     THEN /\ Ends("Salt is the wrong size")
                          /\ salt' = salt_file
                          /\ encrypted_key' = key_file
                          /\ UNCHANGED <<cred_guard, hist>>
                     ELSE /\ salt' = salt_file
                          /\ encrypted_key' = key_file
                          /\ cred_guard' = <<CredentialGuard_new(salt_file, u, pw)>>
                          /\ pc' = IF NeedsKey(key_file) THEN "confirm" ELSE "try"
                          /\ hist' = [hist EXCEPT !.began_empty = NeedsKey(key_file)]
                          /\ UNCHANGED outcome
    /\ password2' = <<>>
    /\ loop_i' = 0
    /\ UNCHANGED <<overflow_checks, storeVars, variant, cfg_user, cfg_password,
                   data_guard, apiVars>>

\* one iteration of main's `for i in 0..4` that confirms the password
MainConfirm ==
    /\ pc = "confirm"
    /\ variant = "main"
    /\ IF password2 # password[1]
       THEN IF loop_i = MAIN_CONFIRM_ROUNDS - 1
            THEN /\ Ends("Passwords do not match. Exiting.")
                 /\ UNCHANGED <<password2, loop_i, hist>>
            ELSE \E pp \in PasswordPrompts :
                   /\ hist' = [hist EXCEPT !.confirms = @ + 1]
                   /\ IF pp[1] # "Ok"
                      THEN /\ Ends("prompt")
                           /\ UNCHANGED <<password2, loop_i>>
                      ELSE /\ password2' = pp[2]
                           /\ loop_i' = loop_i + 1
                           /\ UNCHANGED <<pc, outcome>>
       ELSE /\ pc' = "provision"
            /\ loop_i' = 0
            /\ UNCHANGED <<password2, outcome, hist>>
    /\ UNCHANGED <<overflow_checks, storeVars, variant, cfg_user, cfg_password,
                   salt, username, password, encrypted_key, cred_guard,
                   data_guard, apiVars>>

\* an update_key that reports Ok and leaves the file as it was
update_key_dropped(old, bytes, io, n) == [st |-> "Ok", file |-> old]

\* Store::update_key(bytes): File::create truncates the key file, write_all
\* fills it; either may fail.  The file afterwards, and whether Ok
update_key(old, bytes, io, n) ==
    CASE io = "create" -> [st |-> "io", file |-> old]
      [] io = "write"  -> [st |-> "io", file |-> SubSeq(bytes, 1, n)]
      [] OTHER         -> [st |-> "Ok", file |-> bytes]

\* first use: encrypted_key = cred_guard.generate_encrypted_key()
\* .map_err("Could not generate database key")?; db.update_key(&encrypted_key)?
Provision ==
    /\ pc = "provision"
    /\ \E rk \in KeyDraws, rn \in WrapNonceDraws :
       \E g \in {generate_encrypted_key(cred_guard[1], rk, rn)} :
         IF g.st # "Ok"
         THEN /\ Ends(IF g.st = "panic" THEN "panic"
                      ELSE "Could not generate database key")
              /\ hist' = [hist EXCEPT !.gens = @ + 1]
              /\ UNCHANGED <<encrypted_key, key_file>>
         ELSE \E io \in {"ok", "create", "write"}, n \in PartialWrites :
              \E w \in {update_key(key_file, g.val, io, n)} :
                /\ encrypted_key' = g.val
                /\ key_file' = w.file
                /\ IF w.st = "Ok"
                   THEN /\ pc' = "try"
                        /\ UNCHANGED outcome
                   ELSE Ends("io")
                /\ hist' = [hist EXCEPT
                       !.gens = @ + 1,
                       !.updates = @ + 1,
                       !.prov = IF w.st = "Ok"
                                THEN <<[by |-> <<username, password[1]>>,
                                        key |-> KeyOfBytes(rk[1])]>>
                                ELSE @]
    /\ UNCHANGED <<overflow_checks, salt_file, records, metas, index_file,
                   entry_dirs, config_dir, exists, variant, cfg_user, cfg_password, salt, username,
                   password, password2, cred_guard, data_guard, loop_i, apiVars>>

\* the `i` of `if i != 2`: the last pass of the validation loop
LAST_TRY == 2

\* one pass of the validation loop up to the re-prompt:
\* cred_guard.try_decrypt_key(encrypted_key.clone())
Try ==
    /\ pc = "try"
    /\ \E r \in {try_decrypt_key(cred_guard[1], encrypted_key)} :
         /\ hist' = [hist EXCEPT
                !.tries = @ + 1,
                !.oks = IF r.st = "Ok" THEN @ + 1 ELSE @,
                !.keys = IF r.st = "Ok" THEN @ \cup {r.val.key} ELSE @,
                !.first = IF hist.tries = 0
                          THEN <<[by |-> <<username, password[1]>>,
                                  st |-> r.st,
                                  persisted |-> encrypted_key = key_file,
                                  len |-> Len(encrypted_key),
                                  gens |-> hist.gens,
                                  updates |-> hist.updates]>>
                          ELSE @]
         /\ cred_guard' = GuardAfterTry(r)
         /\ CASE r.st = "panic" ->
                   /\ Ends("panic")
                   /\ UNCHANGED data_guard
              [] r.st = "Ok" ->
                   /\ Ends("Ok")
                   /\ data_guard' = <<r.val>>
              [] OTHER ->
                   /\ UNCHANGED data_guard
                   /\ IF variant = "main" \/ loop_i # LAST_TRY
                      THEN /\ pc' = "reprompt"
                           /\ UNCHANGED outcome
                      ELSE Ends("Invalid credentials")
    /\ UNCHANGED <<overflow_checks, storeVars, variant, cfg_user, cfg_password,
                   salt, username, password, password2, encrypted_key, loop_i,
                   apiVars>>

\* a re-prompt that keeps the username the run began with
RepromptedUsername_kept(old, typed) == old

\* the local `username` after `username = prompt_username()?` returned typed
RepromptedUsername(old, typed) == typed

\* the rest of a pass that failed: username = prompt_username()?;
\* password = prompt_password()?; cred_guard.update_credentials(..); then the
\* loop goes on, or is over and data_guard.context("Invalid credentials")?
Reprompt ==
    /\ pc = "reprompt"
    /\ \E pu \in UserPrompts, pp \in PasswordPrompts :
         IF pu[1] # "Ok"
         THEN /\ Ends(IF pu[1] = "Eof" THEN "panic" ELSE "prompt")
              /\ UNCHANGED <<username, password, cred_guard, loop_i, hist>>
         ELSE IF pp[1] # "Ok"
         THEN /\ Ends("prompt")
              /\ username' = RepromptedUsername(username, pu[2])
              /\ UNCHANGED <<password, cred_guard, loop_i, hist>>
         ELSE /\ username' = RepromptedUsername(username, pu[2])
              /\ password' = <<pp[2]>>
              /\ cred_guard' = <<update_credentials(cred_guard[1], pu[2], pp[2])>>
              /\ hist' = [hist EXCEPT !.reprompts = @ + 1]
              /\ loop_i' = loop_i + 1
              /\ IF loop_i + 1 < MAX_TRIES
                 THEN /\ pc' = "try"
                      /\ UNCHANGED outcome
                 ELSE Ends("Invalid credentials")
    /\ UNCHANGED <<overflow_checks, storeVars, variant, cfg_user, cfg_password,
                   salt, password2, encrypted_key, data_guard, apiVars>>

\* the content files that exist
ContentFiles == {u \in Uuids : records[u] # <<>>}

\* GuardedStore::write_content(uuid, content) of a run that holds a DataGuard:
\* File::create truncates the content file, then the content is sealed and
\* written; each step may fail and leaves the file as it is by then
WriteContent ==
    /\ pc = "done"
    /\ outcome = "Ok"
    /\ hist.calls < MaxStoreCalls
    /\ \E uuid \in Uuids, text \in EntryTexts, rnd \in ContentNonceDraws,
          io \in {"ok", "create", "write"} :
         /\ uuid \in ContentFiles \/ Cardinality(ContentFiles) < MaxRecords
         /\ \E s \in {DataGuard_seal_in_place(data_guard[1], uuid, text, rnd)} :
              LET st == CASE io = "create" -> "io"
                          [] s.st # "Ok"   -> s.st
                          [] io = "write"  -> "io"
                          [] OTHER         -> "Ok"
              IN  /\ records' = [records EXCEPT ![uuid] =
                         CASE io = "create" -> @
                           [] st = "Ok"     -> <<s.val>>
                           [] OTHER         -> <<<<>>>>]
                  /\ ret' = [st |-> st, val |-> <<>>]
                  /\ outcome' = IF st = "panic" THEN "panic" ELSE outcome
                  /\ hist' = [hist EXCEPT !.calls = @ + 1, !.texts =
                         IF io = "create" THEN @
                         ELSE {t \in @ : t[1] # uuid}
                              \cup (IF st = "Ok" THEN {<<uuid, text, hist.runs>>}
                                    ELSE {})]
                  /\ op' = [NoCall EXCEPT !.name = "write_content",
                                          !.uuid = uuid, !.pt = text]
    /\ UNCHANGED <<overflow_checks, salt_file, key_file, metas, index_file,
                   entry_dirs, config_dir, exists, variant, pc, cfg_user, cfg_password, salt, username,
                   password, password2, encrypted_key, cred_guard, data_guard,
                   loop_i, buf>>

\* GuardedStore::read_content(uuid) of a run that holds a DataGuard:
\* "Invalid id" without a content file, else Open::open of what the file holds
ReadContent ==
    /\ pc = "done"
    /\ outcome = "Ok"
    /\ hist.calls < MaxStoreCalls
    /\ \E uuid \in Uuids, io \in {"ok", "open"} :
       \E r \in {IF records[uuid] = <<>> THEN [st |-> "Invalid id", val |-> <<>>]
                 ELSE IF io # "ok" THEN [st |-> "io", val |-> <<>>]
                 ELSE DataGuard_open_in_place(data_guard[1], uuid, records[uuid][1])} :
         /\ ret' = r
         /\ outcome' = IF r.st = "panic" THEN "panic" ELSE outcome
         /\ op' = [NoCall EXCEPT !.name = "read_content", !.uuid = uuid]
    /\ hist' = [hist EXCEPT !.calls = @ + 1]
    /\ UNCHANGED <<overflow_checks, storeVars, variant, pc, cfg_user,
                   cfg_password, salt, username, password, password2,
                   encrypted_key, cred_guard, data_guard, loop_i, buf>>

\* the process has ended; the program is started again on the same store,
\* with the same configuration file
NewRun ==
    /\ pc = "done"
    /\ hist.runs < MaxRuns
    /\ pc' = "start"
    /\ salt' = <<>>
    /\ username' = <<>>
    /\ password' = <<>>
    /\ password2' = <<>>
    /\ encrypted_key' = <<>>
    /\ cred_guard' = <<>>
    /\ data_guard' = <<>>
    /\ loop_i' = 0
    /\ outcome' = ""
    /\ hist' = NewHist(hist.runs + 1, hist.prov, hist.keys, hist.texts)
    /\ ret' = NoRet
    /\ op' = NoCall
    /\ UNCHANGED <<overflow_checks, storeVars, variant, cfg_user, cfg_password,
                   buf>>

Next ==
    \/ CommonBegin
    \/ CommonConfirm
    \/ CommonNewGuard
    \/ MainBegin
    \/ MainConfirm
    \/ Provision
    \/ Try
    \/ Reprompt
    \/ WriteContent
    \/ ReadContent
    \/ NewRun

Spec == Init /\ [][Next]_vars

-----------------------------------------------------------------------------
(* retry(max, func) of src/common.rs and src/lib.rs on its own: func is any  *)
(* closure, each call of which returns Ok(v) or Err(e).  op holds `max` and  *)
(* the local `result`, loop_i the `i` of `for i in 0..max`, hist the results *)
(* of the calls made so far and ret what retry returned.                     *)

\* what a call of func returns
RetryResults == {<<"Ok", 1>>, <<"Ok", 2>>, <<"Err", 1>>, <<"Err", 2>>}

RetryInit ==
    /\ overflow_checks \in BOOLEAN
    /\ NoStore
    /\ variant = "common"
    /\ pc = "first"
    /\ cfg_user = <<>>
    /\ cfg_password = <<>>
    /\ salt = <<>>
    /\ username = <<>>
    /\ password = <<>>
    /\ password2 = <<>>
    /\ encrypted_key = <<>>
    /\ cred_guard = <<>>
    /\ data_guard = <<>>
    /\ loop_i = 0
    /\ outcome = ""
    /\ hist = <<>>
    /\ buf = <<>>
    /\ ret = NoRet
    /\ \E max \in 0..MaxRetries : op = [name |-> "retry", max |-> max, result |-> <<>>]

\* let mut result = func();
RetryFirst ==
    /\ pc = "first"
    /\ \E r \in RetryResults :
         /\ op' = [op EXCEPT !.result = r]
         /\ hist' = <<r>>
    /\ pc' = "loop"
    /\ loop_i' = 0
    /\ UNCHANGED <<overflow_checks, storeVars, variant, cfg_user, cfg_password,
                   salt, username, password, password2, encrypted_key,
                   cred_guard, data_guard, outcome, buf, ret>>

\* one pass of `for i in 0..max`: break when the result is Ok, return it when
\* i == max - 1, else call func again; and the `result` after the loop
RetryPass ==
    /\ pc = "loop"
    /\ IF op.result[1] # "Ok" /\ RetryAgain(op.max, loop_i + 1)
       THEN /\ \E r \in RetryResults :
                 /\ op' = [op EXCEPT !.result = r]
                 /\ hist' = Append(hist, r)
            /\ loop_i' = loop_i + 1
            /\ UNCHANGED <<pc, ret>>
       ELSE /\ ret' = [st |-> op.result[1], val |-> op.result[2]]
            /\ pc' = "done"
            /\ UNCHANGED <<op, hist, loop_i>>
    /\ UNCHANGED <<overflow_checks, storeVars, variant, cfg_user, cfg_password,
                   salt, username, password, password2, encrypted_key,
                   cred_guard, data_guard, outcome, buf>>

RetryNext ==
    \/ RetryFirst
    \/ RetryPass

SpecRetry == RetryInit /\ [][RetryNext]_vars

-----------------------------------------------------------------------------
(* The store of src/db.rs on its own: a directory that starts empty, and the *)
(* calls a process makes on it once Store::open has returned a Store, in any *)
(* order and with failing I/O.  The DataGuard of the GuardedStore is the one *)
(* the verification protocol would hand out.                                 *)

\* what SYSTEM_RNG.fill gives to generate_db_salt: an error or 16 bytes
SaltDraws == {<<>>} \cup {<<s>> : s \in KdfSalts}

\* how many bytes of the salt reach the file when write_all fails
PartialSaltWrites == {0, DB_SALT_LEN \div 2}

\* the step of Store::open that fails ("ok": none)
OpenFailures == {"ok", "dirs", "salt_create", "salt_write", "key_create", "index_create"}

\* a store that writes a salt at every open
SaltMissing_always(ex) == TRUE

\* !salt_path.exists()
SaltMissing(ex) == "salt" \notin ex

\* Store::open of a directory in which the files ex exist and the salt file
\* holds old: the result, the files that exist afterwards and the salt file
Store_open(ex, old, io, rnd, n) ==
    IF io = "dirs"
    THEN [st |-> "io", exists |-> ex, salt |-> old]
    ELSE LET a == IF ~SaltMissing(ex)
                  THEN [st |-> "Ok", exists |-> ex, salt |-> old]
                  ELSE CASE io = "salt_create" ->
                              [st |-> "io", exists |-> ex, salt |-> old]
                         [] rnd = <<>> ->
                              [st |-> "panic", exists |-> ex \cup {"salt"}, salt |-> <<>>]
                         [] io = "salt_write" ->
                              [st |-> "io", exists |-> ex \cup {"salt"},
                               salt |-> SubSeq(rnd[1], 1, n)]
                         [] OTHER ->
                              [st |-> "Ok", exists |-> ex \cup {"salt"}, salt |-> rnd[1]]
         IN  IF a.st # "Ok" THEN a
             ELSE IF "key" \notin a.exists /\ io = "key_create"
             THEN [a EXCEPT !.st = "io"]
             ELSE IF "index" \notin a.exists /\ io = "index_create"
             THEN [a EXCEPT !.st = "io", !.exists = @ \cup {"key"}]
             ELSE [a EXCEPT !.exists = @ \cup {"key", "index"}]

\* the times of chrono::Utc::now() and of `modified`
Times == {1, 2}

\* Metadata::new(username) at the time now
Metadata_new(user, now) == [created |-> now, modified |-> now, author |-> user]

\* toml::to_string(metadata): the two times, then the author
MetaToToml(m) == <<m.created, m.modified>> \o m.author

\* toml::from_slice
MetaFromToml(b) ==
    [created |-> b[1], modified |-> b[2], author |-> SubSeq(b, 3, Len(b))]

\* write_content / write_metadata: File::create(path), then
\* f.write_all(&x.seal(uuid, guard)?); s is what the seal gives.  The result
\* and the file afterwards (<<>>: none, <<bytes>>)
write_sealed(old, s, io) ==
    CASE io = "create" -> [st |-> "io", file |-> old]
      [] s.st # "Ok"   -> [st |-> s.st, file |-> <<<<>>>>]
      [] io = "write"  -> [st |-> "io", file |-> <<<<>>>>]
      [] OTHER         -> [st |-> "Ok", file |-> <<s.val>>]

\* read_content / read_metadata up to Open::open: "Invalid id" without a file
read_sealed(file, dg, uuid, io) ==
    IF file = <<>> THEN [st |-> "Invalid id", val |-> <<>>]
    ELSE IF io = "open" THEN [st |-> "io", val |-> <<>>]
    ELSE DataGuard_open_in_place(dg, uuid, file[1])

\* the wrapped keys a caller hands to update_key
WrappedKeys ==
    {generate_encrypted_key(CredentialGuard_new(s, <<97>>, <<112>>), <<k>>,
                            <<NonceOf(0, 0, 0)>>).val :
        s \in DbSalts, k \in DataKeySamples}

\* the step of insert that fails ("ok": none)
InsertFailures == {"ok", "rng", "dir", "c_create", "c_write", "m_create",
                   "m_write", "i_open", "i_write"}

\* the step of update that fails ("ok": none)
UpdateFailures == {"ok", "r_open", "m_create", "m_write", "c_create", "c_write"}

\* the failure of one write among the failures of a call
WriteFailure(io, create, write) ==
    CASE io = create -> "create"
      [] io = write  -> "write"
      [] OTHER       -> "ok"

\* the line feed that ends a line of the index file
NEWLINE == 10

\* the character of the hexadecimal digit d
HexDigit(d) == IF d < 10 THEN 48 + d ELSE 87 + d

\* the value of the hexadecimal digit c, -1 when c is none
HexValue(c) ==
    CASE c >= 48 /\ c <= 57  -> c - 48
      [] c >= 97 /\ c <= 102 -> c - 87
      [] c >= 65 /\ c <= 70  -> c - 55
      [] OTHER               -> -1

RECURSIVE Uuid_to_string(_)
\* Display for Uuid: write!(f, "{:x}", self.0)
Uuid_to_string(u) ==
    IF u < 16 THEN <<HexDigit(u)>>
    ELSE Uuid_to_string(u \div 16) \o <<HexDigit(u % 16)>>

RECURSIVE HexNumber(_)
\* the number that a string of hexadecimal digits writes
HexNumber(s) ==
    IF s = <<>> THEN 0
    ELSE HexNumber(SubSeq(s, 1, Len(s) - 1)) * 16 + HexValue(s[Len(s)])

\* Uuid::from_str: u128::from_str_radix(s, 16); <<>> for an error (no digit,
\* or a character that is no digit), else <<uuid>>.  The lines of the model
\* are far shorter than the 32 digits beyond which the number overflows
Uuid_from_str(s) ==
    IF s = <<>> \/ \E i \in 1..Len(s) : HexValue(s[i]) = -1
    THEN <<>>
    ELSE <<HexNumber(s)>>

\* format!("{}\n", uuid): the line that insert appends to the index file
IndexLine(uuid) == Uuid_to_string(uuid) \o <<NEWLINE>>

RECURSIVE Lines(_)
\* BufRead::lines: the text cut at its line feeds; what follows the last line
\* feed is a line too unless it is empty
Lines(t) ==
    IF t = <<>> THEN <<>>
    ELSE IF \E i \in 1..Len(t) : t[i] = NEWLINE
    THEN LET k == CHOOSE i \in 1..Len(t) :
                      t[i] = NEWLINE /\ \A j \in 1..(i - 1) : t[j] # NEWLINE
         IN  <<SubSeq(t, 1, k - 1)>> \o Lines(SubSeq(t, k + 1, Len(t)))
    ELSE <<t>>

\* GuardedStore::get_uuids: every line of the index file parsed as a Uuid
get_uuids(index_exists, text, io) ==
    IF ~index_exists \/ io = "open"
    THEN [st |-> "io", val |-> <<>>]
    ELSE LET ls == Lines(text)
         IN  IF \E i \in 1..Len(ls) : Uuid_from_str(ls[i]) = <<>>
             THEN [st |-> "parse", val |-> <<>>]
             ELSE [st |-> "Ok",
                   val |-> [i \in 1..Len(ls) |-> Uuid_from_str(ls[i])[1]]]

\* how many bytes of its line reach the index file when write_all fails
PartialIndexWrites == {0, 1}

\* the files of the entries and the index, as one value
EntryFiles ==
    [records |-> records, metas |-> metas, index |-> index_file,
     dirs |-> entry_dirs]

\* the files of the entries and the index become f
EntryFilesBecome(f) ==
    /\ records' = f.records
    /\ metas' = f.metas
    /\ index_file' = f.index
    /\ entry_dirs' = f.dirs

\* read_metadata: the file opened by the guard and parsed by toml::from_slice
read_metadata(file, dg, uuid, io) ==
    LET r == read_sealed(file, dg, uuid, io)
    IN  IF r.st # "Ok" THEN r
        ELSE IF Len(r.val) < 2 THEN [st |-> "toml", val |-> <<>>]
        ELSE [st |-> "Ok", val |-> MetaFromToml(r.val)]

\* GuardedStore::insert(meta, entry) on the files f: the result and the files
\* afterwards.  Uuid::random().unwrap() draws uuid or panics, then
\* create_dir_all, write_content, write_metadata, and the line of the Uuid
\* appended to the index file
GuardedStore_insert(dg, f, index_exists, uuid, meta, text, rc, rm, io, n) ==
    IF io = "rng" THEN [st |-> "panic", files |-> f]
    ELSE IF io = "dir" THEN [st |-> "io", files |-> f]
    ELSE
      LET c == write_sealed(f.records[uuid],
                   DataGuard_seal_in_place(dg, uuid, text, rc),
                   WriteFailure(io, "c_create", "c_write"))
          f1 == [f EXCEPT !.dirs = @ \cup {uuid}, !.records[uuid] = c.file]
      IN  IF c.st # "Ok" THEN [st |-> c.st, files |-> f1]
          ELSE
            LET m == write_sealed(f.metas[uuid],
                         DataGuard_seal_in_place(dg, uuid, MetaToToml(meta), rm),
                         WriteFailure(io, "m_create", "m_write"))
                f2 == [f1 EXCEPT !.metas[uuid] = m.file]
            IN  IF m.st # "Ok" THEN [st |-> m.st, files |-> f2]
                ELSE IF io = "i_open" \/ ~index_exists
                THEN [st |-> "io", files |-> f2]
                ELSE IF io = "i_write"
                THEN [st |-> "io",
                      files |-> [f2 EXCEPT !.index = @ \o SubSeq(IndexLine(uuid), 1, n)]]
                ELSE [st |-> "Ok",
                      files |-> [f2 EXCEPT !.index = @ \o IndexLine(uuid)]]

\* an update that takes the new time as the time of creation too
Metadata_touch_all(meta, modified) ==
    [meta EXCEPT !.modified = modified, !.created = modified]

\* meta.modified = modified
Metadata_touch(meta, modified) == [meta EXCEPT !.modified = modified]

\* GuardedStore::update(uuid, modified, entry) on the files f: get_metadata
\* and read_metadata read the metadata, write_metadata writes it with the new
\* time, write_content writes the entry
GuardedStore_update(dg, f, uuid, modified, text, rc, rm, io) ==
    LET r == read_metadata(f.metas[uuid], dg, uuid,
                           IF io = "r_open" THEN "open" ELSE "ok")
    IN  IF r.st # "Ok" THEN [st |-> r.st, files |-> f]
        ELSE
          LET m == write_sealed(f.metas[uuid],
                       DataGuard_seal_in_place(dg, uuid,
                           MetaToToml(Metadata_touch(r.val, modified)), rm),
                       WriteFailure(io, "m_create", "m_write"))
              f1 == [f EXCEPT !.metas[uuid] = m.file]
          IN  IF m.st # "Ok" THEN [st |-> m.st, files |-> f1]
              ELSE
                LET c == write_sealed(f.records[uuid],
                             DataGuard_seal_in_place(dg, uuid, text, rc),
                             WriteFailure(io, "c_create", "c_write"))
                IN  [st |-> c.st, files |-> [f1 EXCEPT !.records[uuid] = c.file]]

StoreInit ==
    /\ overflow_checks \in BOOLEAN
    /\ salt_file = <<>>
    /\ key_file = <<>>
    /\ records = [u \in Uuids |-> <<>>]
    /\ metas = [u \in Uuids |-> <<>>]
    /\ index_file = <<>>
    /\ config_dir = <<>>
    /\ entry_dirs = {}
    /\ exists = {}
    /\ NoLocals
    /\ cred_guard = <<>>
    /\ \E k \in DataKeySamples :
         LET g == CredentialGuard_new(CHOOSE s \in DbSalts : TRUE, <<97>>, <<112>>)
         IN  data_guard = <<[guard |-> g, key |-> KeyOfBytes(k)]>>
    /\ hist = [calls |-> 0, opens |-> 0, first |-> "none", inserted |-> {}]
    /\ buf = <<>>
    /\ ret = NoRet
    /\ op = NoCall

\* Store::open(path)
StoreOpen ==
    /\ hist.calls < MaxStoreOps
    /\ \E io \in OpenFailures, rnd \in SaltDraws, n \in PartialSaltWrites :
       \E r \in {Store_open(exists, salt_file, io, rnd, n)} :
         /\ exists' = r.exists
         /\ salt_file' = r.salt
         /\ ret' = [st |-> r.st, val |-> <<>>]
         /\ hist' = [hist EXCEPT
                !.calls = @ + 1,
                !.opens = IF r.st = "Ok" THEN @ + 1 ELSE @,
                !.first = IF @ = "none" THEN r.st ELSE @]
    /\ op' = [NoCall EXCEPT !.name = "open"]
    /\ UNCHANGED <<overflow_checks, key_file, records, metas, index_file,
                   entry_dirs, config_dir, runVars_but_hist, data_guard, buf>>

\* Store::get_salt()
StoreGetSalt ==
    /\ hist.opens >= 1
    /\ hist.calls < MaxStoreOps
    /\ \E io \in {"ok", "open"} :
         ret' = IF io = "ok" /\ "salt" \in exists
                THEN [st |-> "Ok", val |-> salt_file]
                ELSE [st |-> "io", val |-> <<>>]
    /\ hist' = [hist EXCEPT !.calls = @ + 1]
    /\ op' = [NoCall EXCEPT !.name = "get_salt"]
    /\ UNCHANGED <<overflow_checks, storeVars, runVars_but_hist, data_guard, buf>>

\* Store::get_key(): None without a key file or with an empty one
StoreGetKey ==
    /\ hist.opens >= 1
    /\ hist.calls < MaxStoreOps
    /\ \E io \in {"ok", "open"} :
         ret' = IF "key" \notin exists THEN [st |-> "Ok", val |-> <<>>]
                ELSE IF io # "ok" THEN [st |-> "io", val |-> <<>>]
                ELSE [st |-> "Ok",
                      val |-> IF Len(key_file) > 0 THEN <<key_file>> ELSE <<>>]
    /\ hist' = [hist EXCEPT !.calls = @ + 1]
    /\ op' = [NoCall EXCEPT !.name = "get_key"]
    /\ UNCHANGED <<overflow_checks, storeVars, runVars_but_hist, data_guard, buf>>

\* Store::update_key(encrypted_key)
StoreUpdateKey ==
    /\ hist.opens >= 1
    /\ hist.calls < MaxStoreOps
    /\ \E bytes \in WrappedKeys, io \in {"ok", "create", "write"}, n \in PartialWrites :
       \E w \in {update_key(key_file, bytes, io, n)} :
         /\ key_file' = w.file
         /\ exists' = IF io = "create" THEN exists ELSE exists \cup {"key"}
         /\ ret' = [st |-> w.st, val |-> <<>>]
    /\ hist' = [hist EXCEPT !.calls = @ + 1]
    /\ op' = [NoCall EXCEPT !.name = "update_key"]
    /\ UNCHANGED <<overflow_checks, salt_file, records, metas, index_file,
                   entry_dirs, config_dir, runVars_but_hist, data_guard, buf>>

\* GuardedStore::insert(meta, entry) with meta = Metadata::new(username)
StoreInsert ==
    /\ hist.opens >= 1
    /\ hist.calls < MaxStoreOps
    /\ \E uuid \in Uuids, text \in EntryTexts, now \in Times,
          rc \in ContentNonceDraws, rm \in ContentNonceDraws,
          io \in InsertFailures, n \in PartialIndexWrites :
       \E r \in {GuardedStore_insert(data_guard[1], EntryFiles, "index" \in exists,
                      uuid, Metadata_new(<<97>>, now), text, rc, rm, io, n)} :
         /\ EntryFilesBecome(r.files)
         /\ ret' = [st |-> r.st, val |-> IF r.st = "Ok" THEN <<uuid>> ELSE <<>>]
         /\ op' = [NoCall EXCEPT !.name = "insert", !.uuid = uuid, !.pt = text]
         /\ hist' = [hist EXCEPT !.calls = @ + 1,
                                 !.inserted = IF r.st = "Ok" THEN @ \cup {uuid} ELSE @]
    /\ UNCHANGED <<overflow_checks, salt_file, key_file, config_dir, exists,
                   runVars_but_hist, data_guard, buf>>

\* GuardedStore::update(uuid, modified, entry); op keeps the two files of the
\* entry as they were before the call
StoreUpdate ==
    /\ hist.opens >= 1
    /\ hist.calls < MaxStoreOps
    /\ \E uuid \in Uuids, text \in EntryTexts, modified \in Times,
          rc \in ContentNonceDraws, rm \in ContentNonceDraws, io \in UpdateFailures :
       \E r \in {GuardedStore_update(data_guard[1], EntryFiles, uuid, modified,
                                      text, rc, rm, io)} :
         /\ EntryFilesBecome(r.files)
         /\ ret' = [st |-> r.st, val |-> <<>>]
         /\ op' = [name |-> "update", uuid |-> uuid, pt |-> text,
                   modified |-> modified,
                   meta_before |-> metas[uuid], content_before |-> records[uuid]]
    /\ hist' = [hist EXCEPT !.calls = @ + 1]
    /\ UNCHANGED <<overflow_checks, salt_file, key_file, config_dir, exists,
                   runVars_but_hist, data_guard, buf>>

\* GuardedStore::get_uuids()
StoreGetUuids ==
    /\ hist.opens >= 1
    /\ hist.calls < MaxStoreOps
    /\ \E io \in {"ok", "open"} :
         ret' = get_uuids("index" \in exists, index_file, io)
    /\ hist' = [hist EXCEPT !.calls = @ + 1]
    /\ op' = [NoCall EXCEPT !.name = "get_uuids"]
    /\ UNCHANGED <<overflow_checks, storeVars, runVars_but_hist, data_guard, buf>>

StoreNext ==
    \/ StoreOpen
    \/ StoreGetSalt
    \/ StoreGetKey
    \/ StoreUpdateKey
    \/ StoreInsert
    \/ StoreUpdate
    \/ StoreGetUuids

SpecStore == StoreInit /\ [][StoreNext]_vars

-----------------------------------------------------------------------------
(* The callbacks of src/callback.rs that write entries, run one after the    *)
(* other on a store that was opened and provisioned, by a user who holds the *)
(* DataGuard.                                                                *)

\* char::is_whitespace, for the characters below U+0080: tab, line feed,
\* vertical tab, form feed, carriage return, space
Whitespace == {9, 10, 11, 12, 13, 32}

\* a check that takes only the empty text for blank
IsBlank_empty(text) == text = <<>>

\* entry.is_empty() || entry.chars().all(|c| c.is_whitespace())
IsBlank(text) == text = <<>> \/ \A i \in 1..Len(text) : text[i] \in Whitespace

\* what the user leaves in the temporary file: "", " ", "\n", " \n", "H", " H"
EditorTexts == {<<>>, <<32>>, <<10>>, <<32, 10>>, <<72>>, <<32, 72>>}

\* the step of a callback that fails before the store is written ("ok":
\* none): NamedTempFile::new_in, open_file_in_editor, reading the file back
EditFailures == {"ok", "temp", "editor", "read"}

BLANK_ENTRY == "Entry was empty/blank. No journal entry saved."
SAVE_FAILED == "Could not save journal entry"

EntryInit ==
    /\ overflow_checks \in BOOLEAN
    /\ NoLocals
    /\ cred_guard = <<>>
    /\ \E s \in DbSalts, k \in DataKeySamples :
         LET g == CredentialGuard_new(s, <<97>>, <<112>>)
             w == generate_encrypted_key(g, <<k>>, <<NonceOf(0, 0, 0)>>)
             t == try_decrypt_key(g, w.val)
         IN  /\ w.st = "Ok"
             /\ t.st = "Ok"
             /\ salt_file = s
             /\ key_file = w.val
             /\ data_guard = <<t.val>>
    /\ records = [u \in Uuids |-> <<>>]
    /\ metas = [u \in Uuids |-> <<>>]
    /\ index_file = <<>>
    /\ config_dir = <<>>
    /\ entry_dirs = {}
    /\ exists = StoreFiles
    /\ hist = [calls |-> 0]
    /\ buf = <<>>
    /\ ret = NoRet
    /\ op = [name |-> "none", pre |-> "ok", pt |-> <<>>]

\* new_entry(cfg, db): the text comes from the editor; a blank one is
\* refused, any other is inserted with Metadata::new(db.username)
NewEntry ==
    /\ hist.calls < MaxEntryCalls
    /\ \E pre \in EditFailures, text \in EditorTexts :
         /\ op' = [name |-> "new_entry", pre |-> pre,
                   pt |-> IF pre = "ok" THEN text ELSE <<>>]
         /\ IF pre # "ok"
            THEN /\ ret' = [st |-> pre, val |-> <<>>]
                 /\ UNCHANGED <<records, metas, index_file, entry_dirs>>
            ELSE IF IsBlank(text)
            THEN /\ ret' = [st |-> BLANK_ENTRY, val |-> <<>>]
                 /\ UNCHANGED <<records, metas, index_file, entry_dirs>>
            ELSE \E uuid \in Uuids, now \in Times, rc \in ContentNonceDraws,
                    rm \in ContentNonceDraws, io \in InsertFailures,
                    n \in PartialIndexWrites :
                 \E r \in {GuardedStore_insert(data_guard[1], EntryFiles,
                                "index" \in exists, uuid,
                                Metadata_new(<<97>>, now), text, rc, rm, io, n)} :
                   /\ EntryFilesBecome(r.files)
                   /\ ret' = [st |-> CASE r.st = "Ok"    -> "Ok"
                                        [] r.st = "panic" -> "panic"
                                        [] OTHER          -> SAVE_FAILED,
                              val |-> <<>>]
    /\ hist' = [hist EXCEPT !.calls = @ + 1]
    /\ UNCHANGED <<overflow_checks, salt_file, key_file, config_dir, exists,
                   runVars_but_hist, data_guard, buf>>

\* edit_entry(cfg, db, id): the content of the entry is read, handed to the
\* editor in a temporary file and read back; whatever is read back is given
\* to GuardedStore::update with the time of the call
EditEntry ==
    /\ hist.calls < MaxEntryCalls
    /\ \E id \in Uuids, pre \in EditFailures, text \in EditorTexts :
       \E data \in {read_sealed(records[id], data_guard[1], id, "ok")} :
         /\ op' = [name |-> "edit_entry", pre |-> pre,
                   pt |-> IF data.st = "Ok" /\ pre = "ok" THEN text ELSE <<>>]
         /\ IF data.st # "Ok"
            THEN /\ ret' = [st |-> data.st, val |-> <<>>]
                 /\ UNCHANGED <<records, metas, index_file, entry_dirs>>
            ELSE IF pre # "ok"
            THEN /\ ret' = [st |-> pre, val |-> <<>>]
                 /\ UNCHANGED <<records, metas, index_file, entry_dirs>>
            ELSE \E modified \in Times, rc \in ContentNonceDraws,
                    rm \in ContentNonceDraws, io \in UpdateFailures :
                 \E r \in {GuardedStore_update(data_guard[1], EntryFiles, id,
                                modified, text, rc, rm, io)} :
                   /\ EntryFilesBecome(r.files)
                   /\ ret' = [st |-> CASE r.st = "Ok"    -> "Ok"
                                        [] r.st = "panic" -> "panic"
                                        [] OTHER          -> SAVE_FAILED,
                              val |-> <<>>]
    /\ hist' = [hist EXCEPT !.calls = @ + 1]
    /\ UNCHANGED <<overflow_checks, salt_file, key_file, config_dir, exists,
                   runVars_but_hist, data_guard, buf>>

EntryNext ==
    \/ NewEntry
    \/ EditEntry

SpecEntry == EntryInit /\ [][EntryNext]_vars

-----------------------------------------------------------------------------
(* <Config as FromStr>::from_str of src/config.rs on its own.  A text is the *)
(* values it gives to the five keys of Config: <<>> when the key is absent,  *)
(* <<v>> when it is set to the string v.  op holds the text, ret the result. *)

SLASH == 47

\* Path::is_absolute of a Unix build: the path starts with the root
Path_is_absolute(path) == path # <<>> /\ path[1] = SLASH

\* values of temp_dir and journal_dir: absent, "/t", "t", "", "./t"
ConfigDirs == {<<>>, <<<<SLASH, 116>>>>, <<<<116>>>>, <<<<>>>>,
               <<<<46, SLASH, 116>>>>}

\* the texts handed to from_str; `editor` is the one key that has to be there
ConfigTexts ==
    [temp_dir : ConfigDirs, journal_dir : ConfigDirs,
     editor : {<<>>, <<<<118, 105>>>>},
     user : {<<>>, <<<<97>>>>}, password : {<<>>}]

MALFORMED == "Invalid/malformed config"
TEMP_DIR_RELATIVE == "temp_dir must be an absolute path"
JOURNAL_DIR_RELATIVE == "journal_dir must be an absolute path"

\* toml::from_str::<Config>(s): the Option fields may be absent, editor not
toml_from_str(text) ==
    IF text.editor = <<>> THEN [st |-> MALFORMED, val |-> <<>>]
    ELSE [st |-> "Ok",
          val |-> <<[temp_dir |-> text.temp_dir, journal_dir |-> text.journal_dir,
                     editor |-> text.editor[1], user |-> text.user,
                     password |-> text.password]>>]

\* <Config as FromStr>::from_str(s)
Config_from_str(text) ==
    LET parsed == toml_from_str(text)
    IN  IF parsed.st # "Ok" THEN parsed
        ELSE LET cfg == parsed.val[1]
             IN  IF cfg.temp_dir # <<>>
                 THEN IF ~Path_is_absolute(cfg.temp_dir[1])
                      THEN [st |-> TEMP_DIR_RELATIVE, val |-> <<>>]
                      ELSE parsed
                 ELSE IF cfg.journal_dir # <<>>
                 THEN IF ~Path_is_absolute(cfg.journal_dir[1])
                      THEN [st |-> JOURNAL_DIR_RELATIVE, val |-> <<>>]
                      ELSE parsed
                 ELSE parsed

ConfigInit ==
    /\ overflow_checks \in BOOLEAN
    /\ NoStore
    /\ NoLocals
    /\ cred_guard = <<>>
    /\ data_guard = <<>>
    /\ hist = [calls |-> 0]
    /\ buf = <<>>
    /\ ret = NoRet
    /\ op = [name |-> "none", text |-> <<>>]

\* s.parse::<Config>()
ConfigParse ==
    /\ hist.calls < MaxParses
    /\ \E text \in ConfigTexts :
         /\ op' = [name |-> "from_str", text |-> text]
         /\ ret' = Config_from_str(text)
    /\ hist' = [hist EXCEPT !.calls = @ + 1]
    /\ UNCHANGED <<overflow_checks, storeVars, runVars_but_hist, data_guard, buf>>

ConfigNext ==
    \/ ConfigParse

SpecConfig == ConfigInit /\ [][ConfigNext]_vars

-----------------------------------------------------------------------------
(* init(dir) of src/callback.rs on its own.  config_dir is the state of the  *)
(* path that init computes: `dir`/.jarida, or .jarida in the user's home     *)
(* directory when `dir` is None.                                             *)

\* Config::template(), without its comment lines: "\neditor = \"\"\n"
Template == <<10, 101, 100, 105, 116, 111, 114, 32, 61, 32, 34, 34, 10>>

\* a config.toml that a user wrote: "editor = \"vi\"\n"
UserConfig == <<101, 100, 105, 116, 111, 114, 32, 61, 32, 34, 118, 105, 34, 10>>

\* the .jarida directories init may find: none, an empty one, one with the
\* user's config.toml, one with the template
ConfigDirStates == {<<>>, <<<<>>>>, <<<<UserConfig>>>>, <<<<Template>>>>}

\* the step of init that fails ("ok": none): dirs_next::home_dir() is None,
\* create_dir, File::create, write_all
InitFailures == {"ok", "home", "create_dir", "create", "write"}

ALREADY_INITIALIZED == "is already initialized"
NO_HOME == "Could not find user's home directory"

\* a check that finds no directory, whatever is there
Path_exists_never(d) == FALSE

\* path.exists()
Path_exists(d) == d # <<>>

\* init(dir) on the directory state d; dir is <<>> (None) or <<path>>, n the
\* length of what a failing write_all has written
callback_init(d, dir, io, n) ==
    IF dir = <<>> /\ io = "home" THEN [st |-> NO_HOME, dir |-> d]
    ELSE IF Path_exists(d) THEN [st |-> ALREADY_INITIALIZED, dir |-> d]
    \* std::fs::create_dir fails on a path that is there
    ELSE IF io = "create_dir" \/ d # <<>> THEN [st |-> "io", dir |-> d]
    ELSE IF io = "create" THEN [st |-> "io", dir |-> <<<<>>>>]
    ELSE IF io = "write"
    THEN [st |-> "io", dir |-> <<<<SubSeq(Template, 1, n)>>>>]
    ELSE [st |-> "Ok", dir |-> <<<<Template>>>>]

DirInit ==
    /\ overflow_checks \in BOOLEAN
    /\ salt_file = <<>>
    /\ key_file = <<>>
    /\ records = <<>>
    /\ metas = <<>>
    /\ index_file = <<>>
    /\ entry_dirs = {}
    /\ exists = {}
    /\ config_dir \in ConfigDirStates
    /\ NoLocals
    /\ cred_guard = <<>>
    /\ data_guard = <<>>
    /\ hist = [calls |-> 0]
    /\ buf = <<>>
    /\ ret = NoRet
    /\ op = [name |-> "none", dir |-> <<>>, io |-> "ok", before |-> <<>>]

\* jarida init [dir]
InitDir ==
    /\ hist.calls < MaxInits
    /\ \E dir \in {<<>>, <<<<100>>>>}, io \in InitFailures,
          n \in 0..(Len(Template) - 1) :
       \E r \in {callback_init(config_dir, dir, io, n)} :
         /\ config_dir' = r.dir
         /\ ret' = [st |-> r.st, val |-> <<>>]
         /\ op' = [name |-> "init", dir |-> dir, io |-> io, before |-> config_dir]
    /\ hist' = [hist EXCEPT !.calls = @ + 1]
    /\ UNCHANGED <<overflow_checks, salt_file, key_file, records, metas,
                   index_file, entry_dirs, exists, runVars_but_hist,
                   data_guard, buf>>

DirNext ==
    \/ InitDir

SpecDir == DirInit /\ [][DirNext]_vars

-----------------------------------------------------------------------------
(* Properties of the direct calls of DataGuard (SpecGuard) *)

\* the outcome of an open whose tag does not verify: Err(UnspecifiedError {})
AuthFailure == [st |-> "Err", val |-> <<>>]

\* the last call opened, under the identifier it was sealed for, bytes that
\* `how` ("seal": untouched, "flip", "cut") produced from a sealed record
Opened(how) == op.name = "open" /\ op.prev = how

\* C1: whatever nonce the seal drew, seal_in_place(id, p) returns sealed bytes
\* and open_in_place(id, .) of them returns Ok(p).
C1_RoundTrip ==
    /\ (op.name = "seal" /\ op.rnd # <<>>) => ret.st = "Ok"
    /\ (Opened("seal") /\ op.open_uuid = op.uuid) => ret = [st |-> "Ok", val |-> op.pt]

\* C1, where the seal returned: opening the untouched sealed bytes under the
\* same identifier returns Ok(p)
C1_RoundTripOfSealed ==
    (Opened("seal") /\ op.open_uuid = op.uuid) => ret = [st |-> "Ok", val |-> op.pt]

C1_Witness ==
    /\ Opened("seal")
    /\ op.open_uuid = op.uuid
    /\ Len(op.pt) = MaxLen
    /\ ret.st = "Ok"

\* C2: with any single bit of the sealed bytes flipped (ciphertext, tag or one
\* of the 16 stored nonce bytes), open_in_place under the same identifier
\* fails and returns no plaintext.
C2_AnyBitFlipFails ==
    (Opened("flip") /\ op.open_uuid = op.uuid) => ret.st = "Err"

\* C3: sealed bytes of one record never open under another record's
\* identifier.
C3_OtherIdFails ==
    (Opened("seal") /\ op.open_uuid # op.uuid) => ret = AuthFailure

C3_Witness ==
    /\ Opened("seal")
    /\ op.open_uuid # op.uuid
    /\ op.pt # <<>>
    /\ ret = AuthFailure

\* C10: open_in_place of fewer than nonce + tag bytes (0..31) reports an error
\* that is not the authentication failure.
C10_ShortIsMalformed ==
    (op.name = "open" /\ Len(buf) < NONCE_LEN + TAG_LEN)
        => (ret.st \notin {"Ok", "panic"} /\ ret # AuthFailure)

-----------------------------------------------------------------------------
(* Properties of seals made one after the other (SpecSeals) *)

\* C17: no two seals under one key (records under the data key, key wraps
\* under the credential key) use the same AEAD nonce.
C17_NoNonceReuse ==
    \A i \in 1..Len(hist.seals), j \in 1..Len(hist.seals) :
        (i # j /\ hist.seals[i].key = hist.seals[j].key)
            => hist.seals[i].n12 # hist.seals[j].n12

\* the 12 bytes of a drawn nonce that make the AEAD nonce: its low 96 bits
Low96(n) == [i \in 1..AEAD_NONCE_LEN |-> n[NONCE_LEN + 1 - i]]

\* C17, what does hold: two seals use the same AEAD nonce exactly when the
\* values that Nonce::random drew for them agree in their low 96 bits
C17_ReuseOnlyByEqualDraws ==
    \A i \in 1..Len(hist.seals), j \in 1..Len(hist.seals) :
        (hist.seals[i].n12 = hist.seals[j].n12)
            <=> (Low96(hist.seals[i].rnd) = Low96(hist.seals[j].rnd))

\* C18: DataGuard::seal_in_place of n bytes returns n + 32 bytes: the n
\* ciphertext bytes, the 16 bytes of the tag, then the 16 bytes of the drawn
\* nonce, least significant first, whose first 12 are the AEAD nonce of the
\* seal; generate_encrypted_key returns 64 bytes laid out the same way, the
\* 32 key bytes sealed under the credential key with empty associated data.
C18_SealedLayout ==
    (op.name \in {"seal", "wrap"} /\ ret.st = "Ok") =>
        LET n == Len(op.pt)
            key == IF op.name = "seal" THEN data_guard[1].key
                   ELSE cred_guard[1].credential_key
            aad == IF op.name = "seal" THEN Uuid_to_bytes(op.uuid) ELSE <<>>
            stored == SubSeq(buf, n + TAG_LEN + 1, Len(buf))
            n12 == AeadNonce(SubSeq(stored, 1, AEAD_NONCE_LEN))
        IN  /\ Len(buf) = n + TAG_LEN + NONCE_LEN
            /\ op.name = "wrap" => Len(buf) = 2 * KEY_LEN
            /\ \A i \in 1..n : buf[i] = <<"ks", <<KeyName(key), n12, i>>, op.pt[i]>>
            /\ \A j \in 1..TAG_LEN :
                 buf[n + j] = <<"mac", <<KeyName(key), n12, Runs(aad), Runs(op.pt), j>>, 0>>
            /\ \A i \in 1..NONCE_LEN : stored[i] = op.rnd[1][NONCE_LEN + 1 - i]

\* a key was wrapped with the nonce 2^96 - 1 after a record of MaxLen bytes
\* was sealed
C18_Witness ==
    /\ op.name = "wrap"
    /\ ret.st = "Ok"
    /\ op.rnd = <<NonceOf(0, NONCE_LEN - AEAD_NONCE_LEN, 255)>>
    /\ Len(buf) = KEY_LEN + TAG_LEN + NONCE_LEN
    /\ Len(hist.seals) = 2
    /\ hist.seals[1].key = "data"

\* a seal for which Nonce::random (and, for a wrap, the draw of the key)
\* returned a value: seal_in_place got as far as Nonce::advance
Advanced ==
    /\ op.name \in {"seal", "wrap"}
    /\ op.rnd # <<>>
    /\ op.name = "wrap" => op.pt # <<>>

\* what the advance of the last seal did rightly: it returned, the AEAD nonce
\* is the first 12 little-endian bytes of the drawn value v, the stored value
\* v + 1 did not wrap to zero, and the nonce kept for storage is v
AdvancedRightly ==
    /\ ret.st = "Ok"
    /\ NonceAdvance(op.rnd[1]).st = "Ok"
    /\ hist.seals[Len(hist.seals)].n12
         = AeadNonce(SubSeq(NonceToLeBytes(op.rnd[1]), 1, AEAD_NONCE_LEN))
    /\ NonceAfterAdvance(op.rnd[1]) # NonceOf(0, 0, 0)
    /\ SubSeq(buf, Len(buf) - NONCE_LEN + 1, Len(buf)) = NonceToLeBytes(op.rnd[1])

\* C34: for every 128-bit value v that Nonce::random draws, 2^128 - 1
\* included, Nonce::advance succeeds, returns the AEAD nonce made of the low
\* 96 bits of v and leaves the stored value at v + 1 without overflow; the
\* nonce that seal_in_place returns for storage is v.
C34_AdvanceNeverOverflows == Advanced => AdvancedRightly

\* C34, what does hold: the same for every value below 2^128 - 1
C34_AdvanceBelowMax ==
    (Advanced /\ ~NonceIsMax(op.rnd[1])) => AdvancedRightly

\* a record was sealed with the nonce 2^96 - 1, whose successor carries out
\* of the low 96 bits
C34_SealedAtCarry ==
    /\ Advanced
    /\ op.name = "seal"
    /\ op.rnd = <<NonceOf(0, NONCE_LEN - AEAD_NONCE_LEN, 255)>>
    /\ ret.st = "Ok"

-----------------------------------------------------------------------------
(* Properties of the direct calls of CredentialGuard (SpecCred) *)

Tried == op.name = "try_decrypt_key"

\* C5: a try_decrypt_key that fails to authenticate returns Err with the very
\* guard it was called on: same salt, same credential_key.
C5_FailureReturnsSameGuard ==
    (Tried /\ ret.st = "Err") => (ret.val = op.before[1] /\ cred_guard = op.before)

C5_Witness ==
    /\ Tried
    /\ ret.st = "Err"
    /\ hist.fails = 2
    /\ cred_guard = op.before

\* C6: on a key wrapped under (u, p), a try of a guard whose credentials,
\* given by new or by update_credentials, are not (u, p) fails; a try of a
\* guard that was last given (u, p), whatever failed before, succeeds and
\* yields the data key that was wrapped.
C6_RetryAfterUpdate ==
    Tried =>
        /\ hist.cur # hist.by => ret.st = "Err"
        /\ hist.cur = hist.by =>
             /\ ret.st = "Ok"
             /\ ret.val.key = KeyOfBytes(hist.key)
             /\ data_guard = <<ret.val>>

\* C6, the retry alone: a try of a guard that was last given (u, p) succeeds
\* and yields the data key that was wrapped, and a try of a guard whose
\* credentials derive another key than (u, p) fails
C6_UpdateThenSucceeds ==
    Tried =>
        /\ (ret.st = "Ok") <=>
               (CredentialGuard_new(op.before[1].salt, hist.cur[1], hist.cur[2])
                  = CredentialGuard_new(op.before[1].salt, hist.by[1], hist.by[2]))
        /\ hist.cur = hist.by =>
             /\ ret.st = "Ok"
             /\ ret.val.key = KeyOfBytes(hist.key)
             /\ data_guard = <<ret.val>>

\* two tries failed, then update_credentials(u, p) was called and the next try
\* succeeded
C6_Witness ==
    /\ Tried
    /\ ret.st = "Ok"
    /\ hist.cur = hist.by
    /\ hist.fails = 2
    /\ hist.calls = MaxCalls
    /\ ret.val.key = KeyOfBytes(hist.key)

\* C11: try_decrypt_key of stored bytes of any length >= 1 and any content
\* returns Ok(DataGuard) or Err(guard) and never aborts.
C11_TryNeverAborts ==
    (Tried /\ Len(buf) >= 1) => ret.st \in {"Ok", "Err"}

\* C12: a try_decrypt_key of at least nonce + tag bytes that does not unlock,
\* be it for a wrong password, a wrong username, a wrong stored nonce or
\* corrupted bytes, has one outcome: Err with the guard it was called on.
C12_FailuresAreAlike ==
    (Tried /\ Len(buf) >= NONCE_LEN + TAG_LEN /\ ret.st # "Ok")
        => ret = [st |-> "Err", val |-> op.before[1]]

\* C12, for the calls that return: whatever was wrong, the failure is
\* Err(guard), and bytes that were damaged never unlock
C12_ReturnedFailuresAreAlike ==
    (Tried /\ Len(buf) >= NONCE_LEN + TAG_LEN /\ ret.st # "panic")
        => /\ ret.st = "Err" => ret.val = op.before[1]
           /\ (hist.damage # <<>> /\ hist.damage[1][1] # "nonce") => ret.st = "Err"

\* C15: after update_credentials(u, p) the guard has the salt it had and is
\* equal to CredentialGuard::new(salt, u, p), whatever credentials it held
\* and however many updates and failed tries came before.
C15_UpdateIsNew ==
    op.name = "update_credentials" =>
        /\ cred_guard[1].salt = op.before[1].salt
        /\ cred_guard[1] = CredentialGuard_new(op.before[1].salt, hist.cur[1], hist.cur[2])

\* the last of MaxCalls calls was an update that changed the guard, after a
\* failed try
C15_Witness ==
    /\ op.name = "update_credentials"
    /\ hist.calls = MaxCalls
    /\ hist.fails >= 1
    /\ cred_guard # op.before
    /\ cred_guard[1] = CredentialGuard_new(op.before[1].salt, hist.cur[1], hist.cur[2])

-----------------------------------------------------------------------------
(* Properties of derive_key_from_credentials (SpecKdf) *)

Derived == op.name = "derive"

\* C13: two calls with the same salt, username and password return the same
\* key, and two calls with the same salt and username and two different
\* passwords return different keys.
C13_KeyPerPassword ==
    Derived =>
        /\ op.a = op.b => ret.val[1].key = ret.val[2].key
        /\ (op.a[1] = op.b[1] /\ op.a[2] # op.b[2]) => ret.val[1].key # ret.val[2].key

\* C14: with one database salt, two different usernames give different salts
\* to the derivation and, with one password, different keys; and two
\* different pairs (username, password) are never given to the derivation as
\* the same (salt, secret).
C14_KeyPerUsername ==
    Derived =>
        /\ op.a[1] # op.b[1] => ret.val[1].input[1] # ret.val[2].input[1]
        /\ (op.a[1] # op.b[1] /\ op.a[2] = op.b[2]) => ret.val[1].key # ret.val[2].key
        /\ op.a # op.b => ret.val[1].input # ret.val[2].input

\* the usernames "a" and "a\0" with the password "p", under the salt that
\* ends with "a"
C14_Witness ==
    /\ Derived
    /\ op.salt[DB_SALT_LEN] = 97
    /\ op.a = <<<<97>>, <<112>>>>
    /\ op.b = <<<<97, 0>>, <<112>>>>
    /\ ret.val[1].key # ret.val[2].key

-----------------------------------------------------------------------------
(* Properties of the verification protocol (Spec) *)

\* C4: a run calls try_decrypt_key at most 3 times; it holds a DataGuard if
\* and only if one of the calls returned Ok; and a run that has ended after 3
\* failed calls has ended with "Invalid credentials" and without a DataGuard.
C4_ThreeTriesThenInvalid ==
    /\ hist.tries <= MAX_TRIES
    /\ data_guard # <<>> <=> hist.oks >= 1
    /\ (pc = "done" /\ hist.tries = MAX_TRIES /\ hist.oks = 0)
           => (outcome = "Invalid credentials" /\ data_guard = <<>>)

\* C7: once the key file is not empty, no step of any run calls
\* generate_encrypted_key or update_key and the bytes of the key file stay as
\* they are; and all the unlocks of all the runs gave one and the same key.
C7_StoredKeyIsFinal ==
    /\ [][key_file # <<>> => /\ key_file' = key_file
                             /\ hist'.gens <= hist.gens
                             /\ hist'.updates <= hist.updates]_vars
    /\ [](Cardinality(hist.keys) <= 1)

\* a second run, on the store the first one provisioned, has unlocked after a
\* failed try and a re-prompt
C7_Witness ==
    /\ hist.runs = 2
    /\ ~hist.began_empty
    /\ key_file # <<>>
    /\ hist.tries = 2
    /\ hist.oks = 1
    /\ data_guard # <<>>
    /\ Cardinality(hist.keys) = 1

\* C8: a run never calls generate_encrypted_key or update_key twice, nor
\* update_key without generate_encrypted_key; and in a run that found no key,
\* by its first try_decrypt_key each has been called exactly once, the bytes
\* tried are the bytes of the key file, and they are not empty.
C8_ProvisionOnceBeforeTry ==
    /\ hist.updates <= hist.gens
    /\ hist.gens <= 1
    /\ (hist.began_empty /\ hist.first # <<>>) =>
         /\ hist.first[1].gens = 1
         /\ hist.first[1].updates = 1
         /\ hist.first[1].persisted
         /\ hist.first[1].len > 0
         /\ hist.gens = 1
         /\ hist.updates = 1

\* a run that found no key has provisioned the store and unlocked
C8_Witness ==
    /\ hist.began_empty
    /\ hist.first # <<>>
    /\ hist.first[1].persisted
    /\ hist.first[1].len = KEY_LEN + TAG_LEN + NONCE_LEN
    /\ pc = "done"
    /\ outcome = "Ok"
    /\ key_file = encrypted_key

\* the content file of op.uuid holds a text that an earlier run sealed
SealedEarlier(text) ==
    \E t \in hist.texts : t[1] = op.uuid /\ t[2] = text /\ t[3] < hist.runs

\* C9: in a run on a store that an earlier run provisioned with (u, p), a
\* first try_decrypt_key made with (u, p) returns Ok, so that the run unlocks
\* at its first try and without a re-prompt, with the key that was wrapped;
\* and a content file that an earlier run sealed as text is read back as text
\* (unless the file cannot be opened).
C9_ReopenReadsBack ==
    /\ (/\ hist.first # <<>>
        /\ ~hist.began_empty
        /\ hist.prov # <<>>
        /\ hist.first[1].by = hist.prov[1].by)
         => /\ hist.first[1].st = "Ok"
            /\ hist.tries = 1
            /\ hist.reprompts = 0
            /\ data_guard # <<>>
            /\ data_guard[1].key = hist.prov[1].key
    /\ \A text \in EntryTexts :
         (op.name = "read_content" /\ SealedEarlier(text) /\ ret.st # "io")
             => ret = [st |-> "Ok", val |-> text]

\* the second run has unlocked at its first try and has read back the text
\* the first run sealed
C9_Witness ==
    /\ hist.runs = 2
    /\ hist.tries = 1
    /\ hist.reprompts = 0
    /\ hist.prov # <<>>
    /\ hist.first # <<>>
    /\ hist.first[1].by = hist.prov[1].by
    /\ op.name = "read_content"
    /\ SealedEarlier(<<72, 105>>)
    /\ ret = [st |-> "Ok", val |-> <<72, 105>>]

\* the run ended because no confirmation matched
Unconfirmed ==
    /\ pc = "done"
    /\ outcome \in {"Passwords do not match", "Passwords do not match. Exiting."}

\* C19: a run calls generate_encrypted_key only after a confirmation of the
\* password was typed at a prompt; and a run that ended because no
\* confirmation matched has generated no key and leaves the key file empty.
C19_ConfirmBeforeProvision ==
    /\ hist.gens >= 1 => hist.confirms >= 1
    /\ Unconfirmed => (hist.gens = 0 /\ key_file = <<>>)

\* C19, but for main.rs with an empty password
C19_ConfirmUnlessEmptyInMain ==
    /\ (hist.gens >= 1 /\ ~(variant = "main" /\ password = <<<<>>>>))
           => hist.confirms >= 1
    /\ (hist.gens >= 1 /\ variant = "main") => password2 = password[1]
    /\ Unconfirmed => (hist.gens = 0 /\ key_file = <<>>)

\* C20: a run never holds a usable CredentialGuard and a DataGuard at once;
\* and once a try_decrypt_key of the run has returned Ok, the run makes no
\* further try_decrypt_key, update_credentials or generate_encrypted_key.
C20_OneGuardAtATime ==
    /\ [](cred_guard = <<>> \/ data_guard = <<>>)
    /\ [](hist.oks >= 1 => (hist.oks = 1 /\ pc = "done" /\ cred_guard = <<>>))
    /\ [][(hist.oks >= 1 /\ hist'.runs = hist.runs)
            => /\ hist'.tries = hist.tries
               /\ hist'.reprompts = hist.reprompts
               /\ hist'.gens = hist.gens
               /\ cred_guard' = <<>>]_vars

\* a run has unlocked at its second try and has then made a content call
C20_Witness ==
    /\ hist.oks = 1
    /\ hist.tries = 2
    /\ hist.reprompts = 1
    /\ hist.calls = 1
    /\ data_guard # <<>>
    /\ cred_guard = <<>>
    /\ pc = "done"

\* C21: every pair a run takes at a re-prompt is then tried: the step that
\* re-prompts and calls update_credentials leaves the run at its next
\* try_decrypt_key; so a run re-prompts at most twice.
C21_RepromptIsTried ==
    /\ [](hist.reprompts <= MAX_TRIES - 1)
    /\ [][(hist'.reprompts > hist.reprompts /\ hist'.runs = hist.runs)
            => pc' = "try"]_vars

\* C21, in get_and_validate_credentials alone
C21_RepromptIsTriedInCommon ==
    /\ [](variant = "common" => hist.reprompts <= MAX_TRIES - 1)
    /\ [][(variant = "common" /\ hist'.reprompts > hist.reprompts
             /\ hist'.runs = hist.runs)
            => pc' = "try"]_vars

\* C22: when a run returns Ok, the username it returns with the DataGuard is
\* the username of the pair that unlocked: the CredentialGuard inside the
\* DataGuard holds the key derived from the run's salt, that username and the
\* password entered with it, also after one or two failed attempts.
C22_ReturnedUserUnlocked ==
    (pc = "done" /\ outcome = "Ok") =>
        /\ data_guard # <<>>
        /\ data_guard[1].guard =
               CredentialGuard_new(salt, username, password[1])
        /\ try_decrypt_key(CredentialGuard_new(salt, username, password[1]),
                           encrypted_key).st = "Ok"

\* a run has unlocked at its third try, with another username than the one
\* it began with
C22_Witness ==
    /\ pc = "done"
    /\ outcome = "Ok"
    /\ hist.tries = MAX_TRIES
    /\ hist.reprompts = MAX_TRIES - 1
    /\ hist.first[1].by[1] # username
    /\ data_guard # <<>>

\* C23: the bytes that generate_encrypted_key returned to a run are opened by
\* the try_decrypt_key of the same guard, and the DataGuard holds the key that
\* was drawn: a run that found no key and gets to try unlocks at its first
\* try, without a re-prompt, with the guard of the credentials it provisioned
\* with and the key it drew.
C23_FirstUseUnlocks ==
    (hist.began_empty /\ hist.tries >= 1) =>
        /\ hist.first[1].st = "Ok"
        /\ hist.tries = 1
        /\ hist.reprompts = 0
        /\ hist.prov # <<>>
        /\ data_guard # <<>>
        /\ data_guard[1].key = hist.prov[1].key
        /\ data_guard[1].guard =
               CredentialGuard_new(salt, hist.prov[1].by[1], hist.prov[1].by[2])

\* a run has provisioned the store with a key wrapped under the nonce
\* 2^128 - 1 and has unlocked
C23_Witness ==
    /\ hist.began_empty
    /\ hist.tries = 1
    /\ pc = "done"
    /\ outcome = "Ok"
    /\ Len(encrypted_key) = KEY_LEN + TAG_LEN + NONCE_LEN
    /\ SplitNonce(encrypted_key) = NonceOf(255, 0, 255)
    /\ data_guard # <<>>
    /\ data_guard[1].key = hist.prov[1].key

\* a run of get_and_validate_credentials on a store without a key and with
\* no configured password has ended because password and confirmation did
\* not match
MismatchEnded ==
    /\ variant = "common"
    /\ hist.began_empty
    /\ cfg_password = <<>>
    /\ pc = "done"
    /\ outcome = "Passwords do not match"

\* C25: with no configured password on first use, the run fails for a
\* mismatch only after the password and its confirmation were prompted for
\* and then up to 3 more times: after 4 rounds that did not match.
C25_FourConfirmRounds ==
    MismatchEnded => hist.confirms = CONFIRM_RETRIES + 1

\* C25, as retry(3, ..) runs it: 3 rounds in all, the first and 2 more
C25_ThreeConfirmRounds ==
    /\ (variant = "common" /\ hist.began_empty) => hist.confirms <= CONFIRM_RETRIES
    /\ MismatchEnded => hist.confirms = CONFIRM_RETRIES

-----------------------------------------------------------------------------
(* Properties of retry (SpecRetry) *)

\* C24: retry(max, f) calls f again only after a failure, and returns the
\* result of its last call, which is the first Ok if there is one; for
\* max >= 1 it makes at most max calls, and exactly max when all of them
\* fail; for max = 0 it makes exactly one call.
C24_RetryCalls ==
    /\ \A k \in 1..(Len(hist) - 1) : hist[k][1] = "Err"
    /\ op.max >= 1 => Len(hist) <= op.max
    /\ op.max = 0 => Len(hist) <= 1
    /\ pc = "done" =>
         /\ Len(hist) >= 1
         /\ ret = [st |-> hist[Len(hist)][1], val |-> hist[Len(hist)][2]]
         /\ (ret.st = "Err" /\ op.max >= 1) => Len(hist) = op.max
         /\ op.max = 0 => Len(hist) = 1

\* retry(MaxRetries, f) has returned the Ok of its last call
C24_Witness ==
    /\ pc = "done"
    /\ op.max = MaxRetries
    /\ Len(hist) = MaxRetries
    /\ ret = [st |-> "Ok", val |-> 2]

-----------------------------------------------------------------------------
(* Properties of the store on its own (SpecStore) *)

\* C16: once the salt file exists no call (Store::open, get_salt, get_key,
\* update_key, insert, update) changes it; when the first Store::open of the
\* directory returned Ok it holds 16 bytes and get_salt returns them; and a
\* Store::open of a directory that has its salt, key and index files leaves
\* the key file and the index file as they are.
C16_SaltIsFinal ==
    /\ []["salt" \in exists => (salt_file' = salt_file /\ "salt" \in exists')]_vars
    /\ [](hist.first = "Ok" => Len(salt_file) = DB_SALT_LEN)
    /\ []((op.name = "get_salt" /\ ret.st = "Ok") => ret.val = salt_file)
    /\ [][(StoreFiles \subseteq exists /\ op'.name = "open" /\ hist'.calls # hist.calls)
            => (key_file' = key_file /\ index_file' = index_file /\ exists' = exists)]_vars

\* a store with an entry in its index was opened again
C16_Witness ==
    /\ op.name = "open"
    /\ ret.st = "Ok"
    /\ hist.first = "Ok"
    /\ hist.opens = 2
    /\ index_file # <<>>
    /\ Len(salt_file) = DB_SALT_LEN


\* the Uuids that get_uuids reads from the index file as it is
Listed == get_uuids(TRUE, index_file, "ok")

\* C26: after any sequence of insert calls the index file lists the Uuids of
\* the entries in ascending order.
C26_IndexAscending ==
    Listed.st = "Ok" =>
        \A i \in 1..Len(Listed.val), j \in 1..Len(Listed.val) :
            i < j => Listed.val[i] <= Listed.val[j]

\* the entry u has its content file and its metadata file
HasEntryFiles(u) == u \in Uuids /\ records[u] # <<>> /\ metas[u] # <<>>

\* C27: after any sequence of insert and update calls, failed ones included,
\* every Uuid listed in the index file has both its content file and its
\* metadata file.
C27_ListedHaveFiles ==
    Listed.st = "Ok" =>
        \A i \in 1..Len(Listed.val) : HasEntryFiles(Listed.val[i])

\* C27, for the entries whose insert returned Ok: both files exist, and the
\* Uuid is appended only by an insert that wrote both
C27_InsertedHaveFiles ==
    /\ [](\A u \in hist.inserted : HasEntryFiles(u))
    /\ [][index_file' # index_file
            => /\ op'.name = "insert"
               /\ records'[op'.uuid] # <<>>
               /\ metas'[op'.uuid] # <<>>]_vars

\* the last call was GuardedStore::update
Updated == op.name = "update"

\* what read_metadata and read_content of the updated entry give for a file
StoredMeta(file) == read_metadata(file, data_guard[1], op.uuid, "ok")
StoredContent(file) == read_sealed(file, data_guard[1], op.uuid, "ok")

\* C28: an update(uuid, modified, entry) that returns Ok leaves the entry
\* with the content entry and with the metadata it had but for modified,
\* which is the new time; an update of a uuid with no metadata file returns
\* an error and leaves every file as it was; and no update touches the
\* index, the salt, the key or another entry.
C28_UpdateFrame ==
    /\ []((Updated /\ ret.st = "Ok") =>
            /\ StoredMeta(op.meta_before).st = "Ok"
            /\ StoredContent(records[op.uuid]) = [st |-> "Ok", val |-> op.pt]
            /\ StoredMeta(metas[op.uuid]) =
                  [st |-> "Ok",
                   val |-> [created |-> StoredMeta(op.meta_before).val.created,
                            modified |-> op.modified,
                            author |-> StoredMeta(op.meta_before).val.author]])
    /\ [][(op'.name = "update" /\ hist'.calls # hist.calls) =>
            /\ metas[op'.uuid] = <<>> => (ret'.st # "Ok" /\ UNCHANGED storeVars)
            /\ UNCHANGED <<salt_file, key_file, index_file, entry_dirs, exists>>
            /\ \A u \in Uuids \ {op'.uuid} :
                 records'[u] = records[u] /\ metas'[u] = metas[u]]_vars

\* an entry written at time 1 was updated at time 2 with another text
C28_Witness ==
    /\ Updated
    /\ ret.st = "Ok"
    /\ op.modified = 2
    /\ StoredMeta(metas[op.uuid]).val = [created |-> 1, modified |-> 2, author |-> <<97>>]
    /\ StoredContent(op.content_before).st = "Ok"
    /\ StoredContent(op.content_before).val # op.pt
    /\ StoredContent(records[op.uuid]).val = op.pt

\* C29: an update that returns an error leaves the content file and the
\* metadata file of the entry as they were before the call, so that both are
\* as readable as they were.
C29_UpdateAllOrNothing ==
    (Updated /\ ret.st # "Ok") =>
        /\ metas[op.uuid] = op.meta_before
        /\ records[op.uuid] = op.content_before

-----------------------------------------------------------------------------
(* Properties of the callbacks (SpecEntry) *)

\* C30: new_entry with a text that is empty or all whitespace returns the
\* error "Entry was empty/blank. No journal entry saved." and leaves the
\* store as it was: no entry directory, no content or metadata file and no
\* line of the index is written.
C30_BlankIsRefused ==
    [][(op'.name = "new_entry" /\ hist'.calls # hist.calls /\ op'.pre = "ok"
          /\ (op'.pt = <<>> \/ \A i \in 1..Len(op'.pt) : op'.pt[i] \in Whitespace))
        => /\ ret'.st = BLANK_ENTRY
           /\ UNCHANGED storeVars]_vars

\* a text of a space and a line feed was refused on a store that holds an
\* entry
C30_Witness ==
    /\ op.name = "new_entry"
    /\ op.pre = "ok"
    /\ op.pt = <<32, 10>>
    /\ ret.st = BLANK_ENTRY
    /\ hist.calls = 2
    /\ Listed = [st |-> "Ok", val |-> <<2>>]
    /\ entry_dirs = {2}

\* the content read_content returns for the entry u, when it returns one
EntryContent(u) == read_sealed(records[u], data_guard[1], u, "ok")

\* C31: after any sequence of new_entry and edit_entry, no entry of the store
\* has a content that is empty or all whitespace.
C31_NoBlankEntry ==
    \A u \in Uuids : EntryContent(u).st = "Ok" => ~IsBlank(EntryContent(u).val)

\* edit_entry is not the way a blank content gets into the store: every
\* new_entry that returns Ok leaves a content that is not blank
C31_NewEntryStoresText ==
    (op.name = "new_entry" /\ ret.st = "Ok") => ~IsBlank(op.pt)

-----------------------------------------------------------------------------
(* Properties of the configuration parser (SpecConfig) *)

Parsed == op.name = "from_str"

RelativeDir(dir) == dir # <<>> /\ ~Path_is_absolute(dir[1])

\* C32: parsing a Config fails whenever temp_dir is set to a relative path
\* and whenever journal_dir is set to a relative path, whether the other of
\* the two keys is set or absent.
C32_RelativeDirsRefused ==
    (Parsed /\ (RelativeDir(op.text.temp_dir) \/ RelativeDir(op.text.journal_dir)))
        => ret.st # "Ok"

\* what from_str does refuse: a relative temp_dir in every case, a relative
\* journal_dir when temp_dir is absent
C32_RefusedWhenReached ==
    (Parsed /\ (RelativeDir(op.text.temp_dir)
                  \/ (op.text.temp_dir = <<>> /\ RelativeDir(op.text.journal_dir))))
        => ret.st # "Ok"

\* a text with an absolute temp_dir and a relative journal_dir was parsed
C32_AcceptedRelativeJournalDir ==
    /\ Parsed
    /\ op.text.temp_dir = <<<<SLASH, 116>>>>
    /\ op.text.journal_dir = <<<<116>>>>
    /\ ret.st = "Ok"
    /\ ret.val[1].journal_dir = <<<<116>>>>

-----------------------------------------------------------------------------
(* Properties of init (SpecDir) *)

\* C33: init(dir) returns the error "... is already initialized" when the
\* .jarida directory is there already, and leaves the directory and what is
\* in it as they were; when it is not there and no step of init fails, init
\* returns Ok and leaves the directory with a config.toml that holds the
\* template, and a call in which a step fails returns that step's error and
\* never "already initialized".
C33_InitOnce ==
    op.name = "init" =>
        /\ op.before # <<>> /\ ~(op.dir = <<>> /\ op.io = "home")
             => ret.st = ALREADY_INITIALIZED /\ config_dir = op.before
        /\ op.before = <<>> /\ op.io = "ok"
             => ret.st = "Ok" /\ config_dir = <<<<Template>>>>
        /\ op.before = <<>> => ret.st # ALREADY_INITIALIZED
        /\ ret.st = "Ok" => op.before = <<>> /\ config_dir = <<<<Template>>>>

\* a second init, on the directory that holds the template, was refused and
\* left the directory as it was
C33_Witness ==
    /\ op.name = "init"
    /\ hist.calls = 2
    /\ ret.st = ALREADY_INITIALIZED
    /\ op.before = <<<<Template>>>>
    /\ config_dir = <<<<Template>>>>

=============================================================================
